---- MODULE Spec2Model ----
(***************************************************************************)
(* Verification model of the ShopFlow storefront (next16poc).              *)
(*                                                                         *)
(* The module holds several specifications over one set of variables:      *)
(*   SpecLife   the cacheLife status table applied to (age, config)        *)
(*   SpecCache  one cached entry (the bargains page) with requests,        *)
(*              recomputation and the on-demand invalidation handlers      *)
(*   SpecHandlers  revalidateBargains and the POST /api/revalidate route   *)
(*   SpecFetch     the data-fetch functions against upstream responses     *)
(*   SpecDetail    the product detail page and its metadata                *)
(*   SpecCatalog   the catalog page and its query-parameter filters        *)
(*   SpecPrices    the price blocks of the cards and the detail page       *)
(*   SpecErrors    the error boundaries of the product routes              *)
(*   SpecStream    the two Suspense boundaries of the streaming page       *)
(*   SpecTimeline  the documented access timeline against the cache        *)
(*   SpecIsr       the revalidate option of the detail-page fetches        *)
(*   SpecParallel  the catalog page's Promise.all of its two fetches       *)
(*   SpecPpr       the detail page's data cache and its DynamicTime        *)
(*   SpecButton    the RevalidateButton variants and their awaited call    *)
(* Each specification leaves the variables of the others at their idle     *)
(* values.                                                                 *)
(***************************************************************************)
EXTENDS Integers, Sequences, FiniteSets, TLC

VARIABLES
    age,        \* SpecLife: age of the entry being classified (seconds)
    life,       \* the cacheLife configuration [stale, revalidate, expire]
    status,     \* SpecLife: the classification computed, "Unset" before
    now,        \* SpecCache: the clock (seconds)
    entry,      \* SpecCache: the cached entry
    regen,      \* SpecCache: the recomputation in flight
    computations, \* SpecCache: number of computations started so far
    retired,    \* SpecCache: values that were dropped from the cache
    blocked,    \* SpecCache: a request is waiting for a computation
    lastResp,   \* SpecCache: the last response sent to a user
    lastOp,     \* SpecCache: the last invalidation handler run
    lastCalls,  \* SpecCache: the next/cache calls that handler made
    pending,    \* SpecCache: invalidation not yet followed by a request
    upstream,   \* pages: the responses of the product API, [a, b]
    params,     \* SpecCatalog: the query parameters of the catalog page
    result,     \* SpecFetch: the outcome of the data-fetch function called
    page,       \* pages: what the page render produced
    meta,       \* SpecDetail: what generateMetadata produced
    card,       \* SpecPrices: the price block a surface rendered
    item,       \* SpecPrices: the product's price and discountPercentage
    boundary,   \* SpecErrors: the route segment and its error boundary
    invoked,    \* SpecErrors: the data-fetch invocations, <<fn, attempt>>
    wire,       \* SpecErrors: the upstream requests issued, <<fn, attempt>>
    attempts,   \* SpecErrors: the render attempts made
    resets,     \* SpecErrors: the times the user pressed Try Again
    clock,      \* SpecStream: seconds since the request arrived
    sent,       \* SpecStream: the chunks written to the response
    slots,      \* SpecStream: what each suspense boundary shows
    tasks,      \* SpecStream: the async computation of each boundary
    observed,   \* SpecTimeline: the status each listed request found
    isr,        \* SpecIsr: one fetch through the data cache
    ppr,        \* SpecPpr: the detail page's caches and its last response
    button      \* SpecButton: one RevalidateButton and its request

lifeVars  == <<age, status>>
cacheVars == <<now, entry, regen, computations, retired, blocked, lastResp,
               lastOp, lastCalls, pending>>
pageVars  == <<upstream, params, result, page, meta>>
priceVars == <<card, item>>
errVars   == <<boundary, invoked, wire, attempts, resets>>
streamVars == <<clock, sent, slots, tasks>>
timelineVars == <<observed>>
isrVars   == <<isr>>
pprVars   == <<ppr>>
buttonVars == <<button>>
uiVars    == <<priceVars, errVars, streamVars, timelineVars, isrVars,
               pprVars, buttonVars>>
nonCacheVars == <<age, life, status, upstream, params, result, page, meta,
                  uiVars>>
vars == <<age, life, status, now, entry, regen, computations, retired,
          blocked, lastResp, lastOp, lastCalls, pending,
          upstream, params, result, page, meta, uiVars>>

-----------------------------------------------------------------------------
(* Bounds *)

MaxDur == 3
MaxAge == 7
MaxTime == 5
MaxComputations == 3

-----------------------------------------------------------------------------
(* cacheLife configurations *)

\* cacheLife({ stale: 60, revalidate: 90, expire: 120 }) of ProductList
ProductListLife == [stale |-> 60, revalidate |-> 90, expire |-> 120]

\* cacheLife({ stale: 60, revalidate: 300, expire: 1800 }) of the documentation
DocLife == [stale |-> 60, revalidate |-> 300, expire |-> 1800]

SmallLifes ==
    { [stale |-> s, revalidate |-> r, expire |-> e] :
        s \in 0..MaxDur, r \in 0..MaxDur, e \in 0..MaxDur }

\* the ages around the thresholds of a configuration
BoundaryAges(l) ==
    { a \in { l.revalidate - 1, l.revalidate, l.revalidate + 1,
              l.revalidate + l.stale - 1, l.revalidate + l.stale,
              l.expire - 1, l.expire, l.expire + 1 } : a >= 0 }

-----------------------------------------------------------------------------
(* The status table *)

\* a plausible slip: the Fresh row read with an inclusive bound
TableFreshInclusive(a, l) == a <= l.revalidate

TableFresh(a, l)   == a < l.revalidate
TableStale(a, l)   == l.revalidate <= a /\ a < l.revalidate + l.stale
TableExpired(a, l) == a >= l.expire

\* a plausible slip: the expiry threshold taken as exclusive
ClassifyStrictExpire(a, l) ==
    IF a > l.expire THEN "Expired"
    ELSE IF TableFresh(a, l) THEN "Fresh"
    ELSE IF TableStale(a, l) THEN "Stale"
    ELSE "Unclassified"

\* The status of an entry of age a: an expired entry is deleted from the
\* cache, so no Fresh or Stale entry is left where the Expired row applies;
\* an age that no row of the table covers is "Unclassified".
Classify(a, l) ==
    IF TableExpired(a, l) THEN "Expired"
    ELSE IF TableFresh(a, l) THEN "Fresh"
    ELSE IF TableStale(a, l) THEN "Stale"
    ELSE "Unclassified"

-----------------------------------------------------------------------------
(* Idle values of each group *)

LifeIdle == age = 0 /\ status = "Unset"

Undefined == [defined |-> FALSE, s |-> <<>>]
Str(chars) == [defined |-> TRUE, s |-> chars]

NoBody == [json |-> "none", path |-> Undefined, type |-> "absent",
           fault |-> FALSE]

NoOp == [name |-> "none", expire |-> "undefined", path |-> Undefined,
         status |-> 0, revalidated |-> FALSE, message |-> "none",
         request |-> NoBody]

NoPending == [kind |-> "none", was |-> "None"]

NotBlocked == [seen |-> "None", after |-> NoPending]

NoResp == [seen |-> "None", value |-> 0, cached |-> 0, waited |-> FALSE,
           started |-> FALSE, inFlight |-> FALSE, old |-> FALSE,
           after |-> NoPending]

CacheIdle ==
    /\ now = 0
    /\ entry = [exists |-> FALSE, value |-> 0, storedAt |-> 0, mark |-> "none"]
    /\ regen = [mode |-> "idle", id |-> 0, startedAt |-> 0, taint |-> "none"]
    /\ computations = 0
    /\ retired = {}
    /\ blocked = NotBlocked
    /\ lastResp = NoResp
    /\ lastOp = NoOp
    /\ lastCalls = <<>>
    /\ pending = NoPending

NoResponse == [net |-> "none", status |-> 0, body |-> [parse |-> "none"]]
NoParams == [category |-> Undefined, search |-> Undefined,
             minPrice |-> Undefined, maxPrice |-> Undefined]
NoResult == [fn |-> "none"]
NoPage == [kind |-> "none"]
NoMeta == [kind |-> "none"]

PagesIdle ==
    /\ upstream = [a |-> NoResponse, b |-> NoResponse]
    /\ params = NoParams
    /\ result = NoResult
    /\ page = NoPage
    /\ meta = NoMeta

NoCard == [surface |-> "none"]

NoItem == [price |-> 0, hasDiscount |-> FALSE, discount |-> 0]

PricesIdle ==
    /\ card = NoCard
    /\ item = NoItem

NoBoundary == [route |-> "none", state |-> "none"]

ErrorsIdle ==
    /\ boundary = NoBoundary
    /\ invoked = <<>>
    /\ wire = <<>>
    /\ attempts = 0
    /\ resets = 0

Boundaries == {"ProductList", "RecommendedProducts"}

NoTask == [state |-> "idle", due |-> 0, at |-> 0]

StreamIdle ==
    /\ clock = 0
    /\ sent = <<>>
    /\ slots = [b \in Boundaries |-> "none"]
    /\ tasks = [b \in Boundaries |-> NoTask]

TimelineIdle == observed = <<>>

NoIsr == [app |-> "none", fn |-> "none", age |-> 0, outcome |-> "none",
          refetch |-> FALSE]

IsrIdle == isr = NoIsr

NoPpr == [clock |-> 0, steps |-> 0]
PprIdle == ppr = NoPpr

NoButton == [variant |-> "none"]
ButtonIdle == button = NoButton

UiIdle ==
    /\ PricesIdle /\ ErrorsIdle /\ StreamIdle /\ TimelineIdle /\ IsrIdle
    /\ PprIdle /\ ButtonIdle

-----------------------------------------------------------------------------
(* SpecLife: the status table applied to one (age, configuration) *)

LifeInit ==
    /\ life \in SmallLifes \cup {ProductListLife, DocLife}
    /\ age \in (0..MaxAge) \cup BoundaryAges(life)
    /\ status = "Unset"
    /\ CacheIdle
    /\ PagesIdle
    /\ UiIdle

ClassifyEntry ==
    /\ status = "Unset"
    /\ status' = Classify(age, life)
    /\ UNCHANGED <<age, life>>
    /\ UNCHANGED cacheVars
    /\ UNCHANGED pageVars
    /\ UNCHANGED uiVars

LifeNext == ClassifyEntry

SpecLife == LifeInit /\ [][LifeNext]_vars

-----------------------------------------------------------------------------
(* SpecCache: the bargains page entry, its requests and its invalidation *)

EntryTag  == <<"b","a","r","g","a","i","n","s">>
EntryPath == <<"/","b","a","r","g","a","i","n","s">>
OtherPath == <<"/","p","r","o","d","u","c","t","s">>

\* the configurations the entry is run under
CacheLifes == { l \in SmallLifes : l.revalidate < l.expire }

EntryAge == now - entry.storedAt

\* The state a request finds the entry in. On-demand invalidation overrides
\* the age: a deleted entry is Missing, an entry marked stale is Stale unless
\* its age already makes it Expired.
\* a plausible slip: the age counted from time 0, as the Age column of the
\* documented timeline does, whenever the entry was last stored
StateAtSinceCreation(e, t, l) ==
    IF ~e.exists THEN "Missing"
    ELSE IF Classify(t, l) = "Expired" THEN "Expired"
    ELSE IF e.mark = "stale" THEN "Stale"
    ELSE Classify(t, l)

\* the state a request at time t finds entry e in, under configuration l
StateAt(e, t, l) ==
    IF ~e.exists THEN "Missing"
    ELSE IF Classify(t - e.storedAt, l) = "Expired" THEN "Expired"
    ELSE IF e.mark = "stale" THEN "Stale"
    ELSE Classify(t - e.storedAt, l)

EntryState == StateAt(entry, now, life)

\* lastResp is the response that has just been sent: any other step clears
\* it. lastOp and lastCalls are written by SpecHandlers only.
Quiet == UNCHANGED <<lastOp, lastCalls>>

Tick ==
    /\ now < MaxTime
    /\ now' = now + 1
    /\ lastResp' = NoResp
    /\ Quiet
    /\ UNCHANGED <<entry, regen, computations, retired, blocked, pending>>
    /\ UNCHANGED nonCacheVars

\* a plausible slip: a Fresh hit that also starts a recomputation
RequestFreshRegenerates ==
    /\ blocked = NotBlocked
    /\ EntryState = "Fresh"
    /\ computations < MaxComputations
    /\ regen.mode = "idle"
    /\ computations' = computations + 1
    /\ regen' = [mode |-> "background", id |-> computations + 1,
                 startedAt |-> now, taint |-> "none"]
    /\ lastResp' = [seen |-> "Fresh", value |-> entry.value,
                    cached |-> entry.value, waited |-> FALSE,
                    started |-> TRUE, inFlight |-> TRUE,
                    old |-> entry.value \in retired, after |-> pending]
    /\ pending' = NoPending
    /\ Quiet
    /\ UNCHANGED <<now, entry, retired, blocked>>
    /\ UNCHANGED nonCacheVars

\* Fresh: the cached value is served at once, nothing is started.
RequestFresh ==
    /\ blocked = NotBlocked
    /\ EntryState = "Fresh"
    /\ lastResp' = [seen |-> "Fresh", value |-> entry.value,
                    cached |-> entry.value, waited |-> FALSE,
                    started |-> FALSE, inFlight |-> regen.mode # "idle",
                    old |-> entry.value \in retired, after |-> pending]
    /\ pending' = NoPending
    /\ Quiet
    /\ UNCHANGED <<now, entry, regen, computations, retired, blocked>>
    /\ UNCHANGED nonCacheVars

\* a plausible slip: a Stale hit that waits for the recomputation
RequestStaleBlocks ==
    /\ blocked = NotBlocked
    /\ EntryState \in {"Stale", "Unclassified"}
    /\ computations < MaxComputations
    /\ computations' = computations + 1
    /\ regen' = [mode |-> "blocking", id |-> computations + 1,
                 startedAt |-> now, taint |-> "none"]
    /\ blocked' = [seen |-> EntryState, after |-> pending]
    /\ pending' = NoPending
    /\ lastResp' = NoResp
    /\ Quiet
    /\ UNCHANGED <<now, entry, retired>>
    /\ UNCHANGED nonCacheVars

\* Stale (by age or by mark): the old value is served at once and a
\* recomputation runs in the background, unless one is running already.
RequestStale ==
    /\ blocked = NotBlocked
    /\ EntryState \in {"Stale", "Unclassified"}
    /\ regen.mode = "idle" => computations < MaxComputations
    /\ IF regen.mode = "idle"
       THEN /\ computations' = computations + 1
            /\ regen' = [mode |-> "background", id |-> computations + 1,
                         startedAt |-> now, taint |-> "none"]
       ELSE UNCHANGED <<computations, regen>>
    /\ lastResp' = [seen |-> EntryState, value |-> entry.value,
                    cached |-> entry.value, waited |-> FALSE,
                    started |-> regen.mode = "idle", inFlight |-> TRUE,
                    old |-> entry.value \in retired, after |-> pending]
    /\ pending' = NoPending
    /\ Quiet
    /\ UNCHANGED <<now, entry, retired, blocked>>
    /\ UNCHANGED nonCacheVars

\* a plausible slip: an Expired entry whose value is still served
RequestExpiredServesCached ==
    /\ blocked = NotBlocked
    /\ EntryState \in {"Expired", "Missing"}
    /\ IF EntryState = "Expired"
       THEN /\ lastResp' = [seen |-> "Expired", value |-> entry.value,
                            cached |-> entry.value, waited |-> FALSE,
                            started |-> FALSE, inFlight |-> regen.mode # "idle",
                            old |-> entry.value \in retired, after |-> pending]
            /\ UNCHANGED <<entry, regen, computations, retired, blocked>>
       ELSE /\ computations < MaxComputations
            /\ computations' = computations + 1
            /\ regen' = [mode |-> "blocking", id |-> computations + 1,
                         startedAt |-> now, taint |-> "none"]
            /\ blocked' = [seen |-> EntryState, after |-> pending]
            /\ lastResp' = NoResp
            /\ UNCHANGED <<entry, retired>>
    /\ pending' = NoPending
    /\ Quiet
    /\ UNCHANGED now
    /\ UNCHANGED nonCacheVars

\* Expired or no entry: the entry is dropped, the function executes fully
\* and the request waits for it.
RequestExpired ==
    /\ blocked = NotBlocked
    /\ EntryState \in {"Expired", "Missing"}
    /\ computations < MaxComputations
    /\ computations' = computations + 1
    /\ regen' = [mode |-> "blocking", id |-> computations + 1,
                 startedAt |-> now, taint |-> "none"]
    /\ entry' = [entry EXCEPT !.exists = FALSE, !.mark = "none"]
    /\ retired' = IF entry.exists THEN retired \cup {entry.value} ELSE retired
    /\ blocked' = [seen |-> EntryState, after |-> pending]
    /\ pending' = NoPending
    /\ lastResp' = NoResp
    /\ Quiet
    /\ UNCHANGED now
    /\ UNCHANGED nonCacheVars

\* a plausible slip: the recomputation completes but its result is not stored
ComputeDoneKeepsOld ==
    /\ regen.mode # "idle"
    /\ regen' = [mode |-> "idle", id |-> 0, startedAt |-> 0, taint |-> "none"]
    /\ retired' = IF entry.exists THEN retired \cup {entry.value} ELSE retired
    /\ IF blocked # NotBlocked
       THEN /\ lastResp' = [seen |-> blocked.seen, value |-> regen.id,
                            cached |-> entry.value, waited |-> TRUE,
                            started |-> TRUE, inFlight |-> FALSE,
                            old |-> regen.id \in retired,
                            after |-> blocked.after]
            /\ blocked' = NotBlocked
       ELSE lastResp' = NoResp /\ UNCHANGED blocked
    /\ Quiet
    /\ UNCHANGED <<now, entry, computations, pending>>
    /\ UNCHANGED nonCacheVars

\* The recomputation completes: its result replaces the entry and answers
\* the waiting request. A result that an invalidation overtook is stored as
\* the invalidation left the entry (deleted, or marked stale).
ComputeDone ==
    /\ regen.mode # "idle"
    /\ entry' = [exists |-> regen.taint # "expired", value |-> regen.id,
                 storedAt |-> regen.startedAt,
                 mark |-> IF regen.taint = "stale" THEN "stale" ELSE "none"]
    /\ retired' = (IF entry.exists THEN retired \cup {entry.value} ELSE retired)
                  \cup (IF regen.taint = "expired" THEN {regen.id} ELSE {})
    /\ regen' = [mode |-> "idle", id |-> 0, startedAt |-> 0, taint |-> "none"]
    /\ IF blocked # NotBlocked
       THEN /\ lastResp' = [seen |-> blocked.seen, value |-> regen.id,
                            cached |-> entry.value, waited |-> TRUE,
                            started |-> TRUE, inFlight |-> FALSE,
                            old |-> regen.id \in retired,
                            after |-> blocked.after]
            /\ blocked' = NotBlocked
       ELSE lastResp' = NoResp /\ UNCHANGED blocked
    /\ Quiet
    /\ UNCHANGED <<now, computations, pending>>
    /\ UNCHANGED nonCacheVars

(* next/cache calls, acting on st = [entry, regen, retired, calls] *)

\* updateTag(tag): entries carrying the tag expire immediately
updateTag(st, tag) ==
    LET hit == tag = EntryTag IN
    [ entry   |-> IF hit THEN [st.entry EXCEPT !.exists = FALSE, !.mark = "none"]
                  ELSE st.entry,
      regen   |-> IF hit /\ st.regen.mode # "idle"
                  THEN [st.regen EXCEPT !.taint = "expired"] ELSE st.regen,
      retired |-> IF hit /\ st.entry.exists
                  THEN st.retired \cup {st.entry.value} ELSE st.retired,
      calls   |-> Append(st.calls, [fn |-> "updateTag", arg |-> tag,
                                    profile |-> "none", hit |-> hit]) ]

\* revalidateTag(tag, profile): entries carrying the tag are marked stale
revalidateTag(st, tag, profile) ==
    LET hit == tag = EntryTag IN
    [ entry   |-> IF hit /\ st.entry.exists
                  THEN [st.entry EXCEPT !.mark = "stale"] ELSE st.entry,
      regen   |-> IF hit /\ st.regen.mode # "idle" /\ st.regen.taint = "none"
                  THEN [st.regen EXCEPT !.taint = "stale"] ELSE st.regen,
      retired |-> st.retired,
      calls   |-> Append(st.calls, [fn |-> "revalidateTag", arg |-> tag,
                                    profile |-> profile, hit |-> hit]) ]

\* revalidatePath(path): the entry of that path is purged
revalidatePath(st, path) ==
    LET hit == path = EntryPath IN
    [ entry   |-> IF hit THEN [st.entry EXCEPT !.exists = FALSE, !.mark = "none"]
                  ELSE st.entry,
      regen   |-> IF hit /\ st.regen.mode # "idle"
                  THEN [st.regen EXCEPT !.taint = "expired"] ELSE st.regen,
      retired |-> IF hit /\ st.entry.exists
                  THEN st.retired \cup {st.entry.value} ELSE st.retired,
      calls   |-> Append(st.calls, [fn |-> "revalidatePath", arg |-> path,
                                    profile |-> "none", hit |-> hit]) ]

\* JavaScript truthiness of the expire argument (true, false or undefined)
Truthy(expire) == expire = "true"

\* a plausible slip: the else is lost, so expire = true does both
revalidateBargainsNoElse(st, expire) ==
    LET s1 == IF Truthy(expire) THEN updateTag(st, EntryTag) ELSE st
    IN  revalidateTag(s1, EntryTag, "max")

\* the server action revalidateBargains(expire)
revalidateBargains(st, expire) ==
    IF Truthy(expire)
    THEN updateTag(st, EntryTag)
    ELSE revalidateTag(st, EntryTag, "max")

\* what an invalidation of the given kind ("expire", "stale" or "none")
\* leaves pending for the next request of the entry
PendingAfter(kind) ==
    IF kind = "none" THEN pending
    ELSE [ kind |-> IF pending.kind = "expire" THEN "expire" ELSE kind,
           was  |-> IF pending.kind = "none" THEN EntryState
                    ELSE pending.was ]

CacheState == [entry |-> entry, regen |-> regen, retired |-> retired,
               calls |-> <<>>]

\* the buttons call revalidateBargains(expire) with the expire property
\* (true or false) or with no argument at all
ExpireArgs == {"true", "false", "undefined"}

\* the server action invoked against the cached entry
InvokeRevalidateBargains ==
    \E expire \in ExpireArgs :
        LET st == revalidateBargains(CacheState, expire) IN
        /\ entry' = st.entry
        /\ regen' = st.regen
        /\ retired' = st.retired
        /\ pending' = PendingAfter(IF Truthy(expire) THEN "expire" ELSE "stale")
        /\ lastResp' = NoResp
        /\ Quiet
        /\ UNCHANGED <<now, computations, blocked>>
        /\ UNCHANGED nonCacheVars

\* the bodies a request can carry: unreadable, the JSON value null, or an
\* object whose path is absent, a string, or a number (5 or 0).  fault says
\* that next/cache rejects the argument, which the source of this repository
\* does not settle for a path that is not a string.
RequestBodies ==
    { [json |-> "throws", path |-> Undefined, type |-> "absent",
       fault |-> FALSE],
      [json |-> "null", path |-> Undefined, type |-> "absent",
       fault |-> FALSE] }
    \cup { [json |-> "object", path |-> p, type |-> "absent",
            fault |-> FALSE] : p \in {Undefined} }
    \cup { [json |-> "object", path |-> p, type |-> "string",
            fault |-> FALSE] :
             p \in {Str(<<>>), Str(EntryPath), Str(OtherPath)} }
    \cup { [json |-> "object", path |-> Str(<<"0">>), type |-> "number",
            fault |-> FALSE] }
    \cup { [json |-> "object", path |-> Str(<<"5">>), type |-> "number",
            fault |-> f] : f \in BOOLEAN }

\* !path is false: a non-empty string or a non-zero number
PathTruthy(body) ==
    /\ body.path.defined
    /\ IF body.type = "string" THEN body.path.s # <<>>
       ELSE body.path.s # <<"0">>

\* revalidatePath(path) throwing: the call was made, nothing is purged
revalidatePathThrows(st, path) ==
    [st EXCEPT !.calls = Append(st.calls,
                                [fn |-> "revalidatePath", arg |-> path,
                                 profile |-> "threw", hit |-> FALSE])]

ErrorRevalidating(st) ==
    [st |-> st, status |-> 500, revalidated |-> FALSE,
     path |-> Undefined, message |-> "Error revalidating"]

PathIsRequired(st) ==
    [st |-> st, status |-> 400, revalidated |-> FALSE,
     path |-> Undefined, message |-> "Path is required"]

\* a plausible slip: the path is acknowledged but never revalidated
POSTNoRevalidate(st, body) ==
    IF body.json # "object" THEN ErrorRevalidating(st)
    ELSE IF ~PathTruthy(body) THEN PathIsRequired(st)
    ELSE IF body.fault THEN ErrorRevalidating(st)
    ELSE [st |-> st, status |-> 200,
          revalidated |-> TRUE, path |-> body.path, message |-> "none"]

\* a plausible slip: the page of the button revalidated whatever the path
POSTFixedPath(st, body) ==
    IF body.json # "object" THEN ErrorRevalidating(st)
    ELSE IF ~PathTruthy(body) THEN PathIsRequired(st)
    ELSE IF body.fault
    THEN ErrorRevalidating(revalidatePathThrows(st, body.path.s))
    ELSE [st |-> revalidatePath(st, EntryPath), status |-> 200,
          revalidated |-> TRUE, path |-> body.path, message |-> "none"]

\* a plausible slip: the path check after the revalidation
POSTCheckAfter(st, body) ==
    IF body.json # "object" THEN ErrorRevalidating(st)
    ELSE IF body.fault
    THEN ErrorRevalidating(revalidatePathThrows(st, body.path.s))
    ELSE IF ~PathTruthy(body)
    THEN PathIsRequired(revalidatePath(st, body.path.s))
    ELSE [st |-> revalidatePath(st, body.path.s), status |-> 200,
          revalidated |-> TRUE, path |-> body.path, message |-> "none"]

\* the route handler POST(request): request.json() throws on an unreadable
\* body, destructuring null throws, and both land in the catch
POST(st, body) ==
    IF body.json # "object" THEN ErrorRevalidating(st)
    ELSE IF ~PathTruthy(body) THEN PathIsRequired(st)
    ELSE IF body.fault
    THEN ErrorRevalidating(revalidatePathThrows(st, body.path.s))
    ELSE [st |-> revalidatePath(st, body.path.s), status |-> 200,
          revalidated |-> TRUE, path |-> body.path, message |-> "none"]

\* the route handler invoked against the cached entry
InvokePOST ==
    \E body \in RequestBodies :
        LET r == POST(CacheState, body) IN
        /\ entry' = r.st.entry
        /\ regen' = r.st.regen
        /\ retired' = r.st.retired
        /\ pending' = PendingAfter(IF body.json = "object" /\ body.path = Str(EntryPath)
                                   THEN "expire" ELSE "none")
        /\ lastResp' = NoResp
        /\ Quiet
        /\ UNCHANGED <<now, computations, blocked>>
        /\ UNCHANGED nonCacheVars

CacheInit ==
    /\ life \in CacheLifes
    /\ LifeIdle
    /\ UiIdle
    /\ CacheIdle
    /\ PagesIdle

CacheNext ==
    \/ Tick
    \/ RequestFresh
    \/ RequestStale
    \/ RequestExpired
    \/ ComputeDone
    \/ InvokeRevalidateBargains
    \/ InvokePOST

SpecCache == CacheInit /\ [][CacheNext]_vars

(* Requests and invalidation: the claims *)

\* C2 as stated: after an on-demand invalidation by any of the handlers of
\* an entry that was Fresh or Stale, the next request of the entry waits for a recomputation and is answered with
\* the recomputed value, not with the cached one.
C2_InvalidationRecomputesAsStated ==
    (lastResp.after.kind # "none" /\ lastResp.after.was \in {"Fresh", "Stale"}) =>
        /\ lastResp.waited
        /\ lastResp.started
        /\ lastResp.value # lastResp.cached

\* C2 amended: after POST /api/revalidate with the entry's path or
\* revalidateBargains(true) the next request recomputes instead of serving
\* the cached value, whatever the entry's state was; after
\* revalidateBargains(false) or revalidateBargains() an existing entry is only
\* marked stale: unless its age has expired it meanwhile, the next request is
\* served the cached value at once and a recomputation runs in the
\* background.
C2_InvalidationRecomputes ==
    /\ lastResp.after.kind = "expire" =>
          /\ lastResp.waited
          /\ lastResp.started
          /\ lastResp.value # lastResp.cached
          /\ ~lastResp.old
    /\ (/\ lastResp.after.kind = "stale"
        /\ lastResp.after.was \in {"Fresh", "Stale", "Unclassified"}
        /\ lastResp.seen # "Expired") =>
          /\ lastResp.seen = "Stale"
          /\ ~lastResp.waited
          /\ lastResp.value = lastResp.cached
          /\ lastResp.inFlight

\* C2 witness: an entry invalidated while Fresh, whose next request waited
\* for the recomputed value.
C2_Witness ==
    /\ lastResp.after.kind = "expire"
    /\ lastResp.after.was = "Fresh"
    /\ lastResp.waited
    /\ lastResp.value # lastResp.cached

\* C4: a request that finds the entry Fresh is served the cached value at
\* once and starts no recomputation.
C4_FreshServedFromCache ==
    lastResp.seen = "Fresh" =>
        /\ ~lastResp.waited
        /\ lastResp.value = lastResp.cached
        /\ ~lastResp.started

\* C4 witness: a Fresh hit answered with no recomputation in flight.
C4_Witness ==
    /\ lastResp.seen = "Fresh"
    /\ ~lastResp.waited
    /\ regen.mode = "idle"
    /\ EntryAge < life.revalidate

\* C5: a request that finds the entry Stale is served the old value at once
\* while a recomputation runs in the background, and no response ever carries
\* a value that a completed recomputation has replaced.
C5_StaleWhileRevalidate ==
    /\ lastResp.seen = "Stale" =>
          /\ ~lastResp.waited
          /\ lastResp.value = lastResp.cached
          /\ lastResp.inFlight
          /\ regen.mode = "background"
    /\ lastResp.seen # "None" => ~lastResp.old

\* C5 witness: a Stale hit that started the background recomputation.
C5_Witness ==
    /\ lastResp.seen = "Stale"
    /\ lastResp.started
    /\ ~lastResp.waited
    /\ regen.mode = "background"

\* C5 witness, second half: a cached response carrying a value that a
\* recomputation stored in place of an older one.
C5_RefreshedServed ==
    /\ lastResp.seen = "Fresh"
    /\ retired # {}
    /\ lastResp.value \notin retired
    /\ \A v \in retired : v < lastResp.value

\* C6: a request that finds the entry Expired waits for a full recomputation
\* and is answered with its result; the expired value is dropped and never
\* served.
C6_ExpiredBlocks ==
    lastResp.seen = "Expired" =>
        /\ lastResp.waited
        /\ lastResp.started
        /\ lastResp.value # lastResp.cached
        /\ lastResp.cached \in retired
        /\ ~lastResp.old

\* C6 witness: an entry that expired by age, answered after the wait.
C6_Witness ==
    /\ lastResp.seen = "Expired"
    /\ lastResp.waited
    /\ lastResp.after.kind = "none"

-----------------------------------------------------------------------------
(* SpecHandlers: the invalidation handlers, with the calls they make *)

\* the shapes the entry can be in when a handler runs
HandlerEntries ==
    { [exists |-> x, value |-> v, storedAt |-> 0, mark |-> m] :
        x \in BOOLEAN, v \in 1..MaxComputations, m \in {"none", "stale"} }

HandlerRegens ==
    { [mode |-> "idle", id |-> 0, startedAt |-> 0, taint |-> "none"] }
    \cup { [mode |-> m, id |-> MaxComputations + 1, startedAt |-> 0,
            taint |-> "none"] : m \in {"background", "blocking"} }

HandlersInit ==
    /\ life = ProductListLife
    /\ LifeIdle
    /\ UiIdle
    /\ now = 0
    /\ entry \in { e \in HandlerEntries : e.mark = "stale" => e.exists }
    /\ regen \in HandlerRegens
    /\ computations = MaxComputations + 1
    /\ retired = {}
    /\ blocked = NotBlocked
    /\ lastResp = NoResp
    /\ lastOp = NoOp
    /\ lastCalls = <<>>
    /\ pending = NoPending
    /\ PagesIdle

RevalidateBargainsAction ==
    \E expire \in ExpireArgs :
        LET st == revalidateBargains(CacheState, expire) IN
        /\ entry' = st.entry
        /\ regen' = st.regen
        /\ retired' = st.retired
        /\ lastCalls' = st.calls
        /\ lastOp' = [NoOp EXCEPT !.name = "revalidateBargains",
                                  !.expire = expire]
        /\ UNCHANGED <<now, computations, blocked, lastResp, pending>>
        /\ UNCHANGED nonCacheVars

PostRevalidateAction ==
    \E body \in RequestBodies :
        LET r == POST(CacheState, body) IN
        /\ entry' = r.st.entry
        /\ regen' = r.st.regen
        /\ retired' = r.st.retired
        /\ lastCalls' = r.st.calls
        /\ lastOp' = [NoOp EXCEPT !.name = "POST", !.path = r.path,
                                  !.request = body,
                                  !.status = r.status,
                                  !.revalidated = r.revalidated,
                                  !.message = r.message]
        /\ UNCHANGED <<now, computations, blocked, lastResp, pending>>
        /\ UNCHANGED nonCacheVars

HandlersNext ==
    \/ RevalidateBargainsAction
    \/ PostRevalidateAction

SpecHandlers == HandlersInit /\ [][HandlersNext]_vars

\* C3: every call of revalidateBargains(expire) makes exactly one next/cache
\* call, on the tag 'bargains': updateTag when expire is true (the entry
\* expires at once), revalidateTag with profile 'max' when expire is false or
\* omitted (the entry is marked stale and kept).
C3_OneInvalidationPerCall ==
    lastOp.name = "revalidateBargains" =>
        /\ Len(lastCalls) = 1
        /\ lastCalls[1].arg = EntryTag
        /\ lastOp.expire = "true" =>
              /\ lastCalls[1].fn = "updateTag"
              /\ ~entry.exists
        /\ lastOp.expire \in {"false", "undefined"} =>
              /\ lastCalls[1].fn = "revalidateTag"
              /\ lastCalls[1].profile = "max"
              /\ entry.exists => entry.mark = "stale"

\* C3 witness: revalidateBargains(true) has just run on an entry it kept
\* none of, with its single updateTag call.
C3_Witness ==
    /\ lastOp.name = "revalidateBargains"
    /\ lastOp.expire = "true"
    /\ Len(lastCalls) = 1
    /\ lastCalls[1].fn = "updateTag"
    /\ retired # {}

\* C3 witness for the omitted argument: revalidateBargains() marks stale.
C3_WitnessOmitted ==
    /\ lastOp.name = "revalidateBargains"
    /\ lastOp.expire = "undefined"
    /\ lastCalls[1].fn = "revalidateTag"
    /\ entry.exists /\ entry.mark = "stale"

-----------------------------------------------------------------------------
(* JavaScript values and the responses of the product API *)

Undef == [t |-> "undefined"]
Null == [t |-> "null"]
Arr(items) == [t |-> "array", items |-> items]
Obj(fields) == [t |-> "object", f |-> fields]
StrV(chars) == [t |-> "string", s |-> chars]

\* v.k: undefined when the field is absent (reading a field of null or
\* undefined throws, see Nullish)
Get(v, k) == IF v.t = "object" /\ k \in DOMAIN v.f THEN v.f[k] ELSE Undef
Has(v, k) == v.t = "object" /\ k \in DOMAIN v.f
Nullish(v) == v.t \in {"null", "undefined"}
\* !v is false for objects and arrays, true for null, undefined and ""
TruthyV(v) == CASE v.t \in {"null", "undefined"} -> FALSE
                [] v.t = "string" -> v.s # <<>>
                [] OTHER -> TRUE

\* the products of the catalogue: the fields of a product hold plain numbers
\* and character sequences; prices are in tenths of a dollar
Product(id, title, description, brand, category, price, discount) ==
    Obj([id |-> id, title |-> title, description |-> description,
         brand |-> brand, category |-> category, price |-> price,
         discountPercentage |-> discount, images |-> <<"i">>])

Catalogue ==
    << Product(1, <<"A", "b">>, <<"x", "y">>, <<"B">>, <<"a">>, 10, 0),
       Product(2, <<"b", "a">>, <<"Y">>, <<"c">>, <<"A">>, 15, 20),
       Product(3, <<"c">>, <<"a", "b">>, <<"A">>, <<"b">>, 20, 50),
       Product(4, <<"y">>, <<"c">>, <<"x">>, <<"B">>, 5, 0) >>

MaxProducts == 2

RECURSIVE SeqsUpTo(_, _)
\* all sequences over S of length at most n
SeqsUpTo(S, n) ==
    IF n = 0 THEN {<<>>}
    ELSE LET shorter == SeqsUpTo(S, n - 1)
         IN  shorter \cup { Append(q, x) : q \in shorter, x \in S }

ProductLists == SeqsUpTo({ Catalogue[i] : i \in DOMAIN Catalogue }, MaxProducts)

Category(slug) == Obj([slug |-> StrV(slug), name |-> StrV(slug)])

\* JSON bodies the API can answer with: the documented shapes and malformed
\* ones
ListBodies ==
    { Obj([products |-> Arr(l), total |-> Len(l)]) : l \in ProductLists }
MalformedBodies ==
    { Null, Obj(<<>>), Obj([message |-> StrV(<<"e">>)]),
      Obj([products |-> Null]), Obj([products |-> Arr(<<Null>>)]),
      Obj([products |-> Arr(<<Obj(<<>>)>>)]) }
ProductBodies == { Catalogue[i] : i \in DOMAIN Catalogue }
CategoryBodies ==
    { Arr(<<>>),
      Arr(<<StrV(<<"a">>), StrV(<<"b">>)>>),
      Arr(<<Category(<<"a">>), Category(<<"b">>)>>),
      Arr(<<Category(<<"a">>), Obj([name |-> StrV(<<"b">>)])>>),
      Arr(<<Obj([name |-> StrV(<<"a">>)])>>),
      Arr(<<Category(<<"a">>), Null>>),
      Arr(<<StrV(<<"a">>), Null>>),
      Arr(<<Obj([slug |-> StrV(<<>>)])>>),
      Arr(<<Null>>) }

NetworkError == [net |-> "reject", status |-> 0, body |-> [parse |-> "none"]]
Http(code, body) == [net |-> "ok", status |-> code, body |-> body]
Json(v) == [parse |-> "ok", json |-> v]
Unparsable == [parse |-> "throws"]

Statuses == {200, 404, 500}

ResponsesWith(bodies) ==
    {NetworkError}
    \cup { Http(st, Unparsable) : st \in Statuses }
    \cup { Http(st, Json(v)) : st \in Statuses, v \in bodies }

\* res.ok
Ok(res) == 200 <= res.status /\ res.status <= 299

-----------------------------------------------------------------------------
(* The data-fetch functions.  Each is a try block (...Try) whose exceptions *)
(* the catch clause turns into the fallback value.                          *)

Threw == [threw |-> TRUE, value |-> Undef]
Value(v) == [threw |-> FALSE, value |-> v]
Returns(v) == [rejects |-> FALSE, value |-> v]
Rejects == [rejects |-> TRUE, value |-> Undef]
Catch(t, fallback) == Returns(IF t.threw THEN fallback ELSE t.value)

\* await fetch(...); if (!res.ok) throw ...; await res.json()
FetchJson(res) ==
    IF res.net = "reject" THEN Threw
    ELSE IF ~Ok(res) THEN Threw
    ELSE IF res.body.parse = "throws" THEN Threw
    ELSE Value(res.body.json)

\* data.products
ProductsOf(data) == IF Nullish(data) THEN Threw ELSE Value(Get(data, "products"))

getAllProductsTry(res) ==
    LET data == FetchJson(res) IN
    IF data.threw THEN Threw ELSE ProductsOf(data.value)

\* a plausible slip: the failure logged and thrown again
getAllProductsRethrows(res) ==
    LET t == getAllProductsTry(res) IN
    IF t.threw THEN Rejects ELSE Returns(t.value)

getAllProducts(res) == Catch(getAllProductsTry(res), Arr(<<>>))

getFeaturedProductsTry(res) ==
    LET data == FetchJson(res) IN
    IF data.threw THEN Threw ELSE ProductsOf(data.value)

getFeaturedProducts(res) == Catch(getFeaturedProductsTry(res), Arr(<<>>))

\* a plausible slip: only the older answer of the API, a list of strings, is
\* handled
getCategoriesStringsOnly(res) ==
    LET data == FetchJson(res) IN
    IF data.threw THEN Threw
    ELSE LET d == data.value IN
         IF d.t = "array" /\ Len(d.items) > 0 /\ d.items[1].t = "string"
         THEN Value(d)
         ELSE Value(Arr(<<>>))

getCategoriesTry(res) ==
    LET data == FetchJson(res) IN
    IF data.threw THEN Threw
    ELSE LET d == data.value IN
         IF d.t = "array" /\ Len(d.items) > 0
         THEN IF d.items[1].t = "string" THEN Value(d)
              ELSE IF d.items[1].t \in {"object", "array", "null"}
              THEN \* typeof null is "object": data[0].slug throws on null
                   IF d.items[1].t = "null" THEN Threw
                   ELSE IF TruthyV(Get(d.items[1], "slug"))
                   THEN IF \E i \in DOMAIN d.items : Nullish(d.items[i])
                        THEN Threw
                        ELSE Value(Arr([i \in DOMAIN d.items |->
                                           Get(d.items[i], "slug")]))
                   ELSE Value(Arr(<<>>))
              ELSE Value(Arr(<<>>))
         ELSE Value(Arr(<<>>))

getCategories(res) == Catch(getCategoriesTry(res), Arr(<<>>))

\* a plausible slip: the 404 branch is lost and the failure is not caught
getProductUncaught(res) ==
    IF res.net = "reject" \/ ~Ok(res) \/ res.body.parse = "throws"
    THEN Rejects
    ELSE Returns(res.body.json)

getProductTry(res) ==
    IF res.net = "reject" THEN Threw
    ELSE IF ~Ok(res)
    THEN IF res.status = 404 THEN Value(Null) ELSE Threw
    ELSE IF res.body.parse = "throws" THEN Threw
    ELSE Value(res.body.json)

getProduct(res) == Catch(getProductTry(res), Null)

\* items.slice(0, limit)
Slice(items, limit) ==
    IF Len(items) <= limit THEN items ELSE SubSeq(items, 1, limit)

DefaultLimit == 4

\* the limits a caller can pass; the detail page passes none and gets the
\* default
Limits == 0..DefaultLimit

\* a plausible slip: the list is cut before the current product is removed
getRelatedProductsSliceFirst(res, currentId, limit) ==
    LET data == FetchJson(res) IN
    IF data.threw THEN Threw
    ELSE LET products == ProductsOf(data.value) IN
         IF products.threw THEN Threw
         ELSE IF products.value.t # "array" THEN Threw
         ELSE IF \E i \in DOMAIN products.value.items :
                     Nullish(products.value.items[i])
         THEN Threw
         ELSE Value(Arr(SelectSeq(Slice(products.value.items, limit),
                            LAMBDA p : ~Has(p, "id") \/ p.f.id # currentId)))

getRelatedProductsTry(res, currentId, limit) ==
    LET data == FetchJson(res) IN
    IF data.threw THEN Threw
    ELSE LET products == ProductsOf(data.value) IN
         IF products.threw THEN Threw
         ELSE IF products.value.t # "array" THEN Threw
         ELSE IF \E i \in DOMAIN products.value.items :
                     Nullish(products.value.items[i])
         THEN Threw
         ELSE Value(Arr(Slice(
                  SelectSeq(products.value.items,
                            LAMBDA p : ~Has(p, "id") \/ p.f.id # currentId),
                  limit)))

getRelatedProducts(res, currentId, limit) ==
    Catch(getRelatedProductsTry(res, currentId, limit), Arr(<<>>))

\* generateStaticParams does not look at res.ok
generateStaticParamsTry(res) ==
    IF res.net = "reject" THEN Threw
    ELSE IF res.body.parse = "throws" THEN Threw
    ELSE LET products == ProductsOf(res.body.json) IN
         IF products.threw THEN Threw
         ELSE IF products.value.t # "array" THEN Threw
         ELSE IF \E i \in DOMAIN products.value.items :
                     \/ Nullish(products.value.items[i])
                     \/ ~Has(products.value.items[i], "id")
         THEN Threw
         ELSE Value(Arr([i \in DOMAIN products.value.items |->
                            Obj([id |-> products.value.items[i].f.id])]))

generateStaticParams(res) == Catch(generateStaticParamsTry(res), Arr(<<>>))

-----------------------------------------------------------------------------
(* SpecFetch: each data-fetch function against one upstream response *)

FetchResponses ==
    ResponsesWith(ListBodies \cup MalformedBodies \cup ProductBodies
                  \cup CategoryBodies)

FetchInit ==
    /\ upstream \in { [a |-> r, b |-> NoResponse] : r \in FetchResponses }
    /\ params = NoParams
    /\ result = NoResult
    /\ page = NoPage
    /\ meta = NoMeta
    /\ life = ProductListLife
    /\ LifeIdle
    /\ UiIdle
    /\ CacheIdle

Called(fn, shape, args, r) ==
    /\ result = NoResult
    /\ result' = [fn |-> fn, shape |-> shape, args |-> args,
                  rejects |-> r.rejects, value |-> r.value]
    /\ UNCHANGED <<upstream, params, page, meta>>
    /\ UNCHANGED <<age, life, status>>
    /\ UNCHANGED uiVars
    /\ UNCHANGED cacheVars

CallGetProduct ==
    Called("getProduct", "product", <<>>, getProduct(upstream.a))
CallGetRelatedProducts ==
    \E currentId \in 1..Len(Catalogue), limit \in Limits :
        Called("getRelatedProducts", "products", <<currentId, limit>>,
               getRelatedProducts(upstream.a, currentId, limit))
CallGetAllProducts ==
    Called("getAllProducts", "products", <<>>, getAllProducts(upstream.a))
CallGetCategories ==
    Called("getCategories", "categories", <<>>, getCategories(upstream.a))
CallGetFeaturedProducts ==
    Called("getFeaturedProducts", "products", <<>>,
           getFeaturedProducts(upstream.a))
CallGenerateStaticParams ==
    Called("generateStaticParams", "products", <<>>,
           generateStaticParams(upstream.a))

FetchNext ==
    \/ CallGetProduct
    \/ CallGetRelatedProducts
    \/ CallGetAllProducts
    \/ CallGetCategories
    \/ CallGetFeaturedProducts
    \/ CallGenerateStaticParams

SpecFetch == FetchInit /\ [][FetchNext]_vars

\* the body has the shape the caller expects of the endpoint
WellFormed(shape, v) ==
    CASE shape = "product" -> v \in ProductBodies
      [] shape = "products" -> v \in ListBodies
      [] shape = "categories" -> v \in CategoryBodies \ {Arr(<<Null>>),
             Arr(<<Category(<<"a">>), Null>>)}
      [] OTHER -> FALSE

\* an upstream fetch failure: network rejection, non-OK status, unparsable
\* or malformed body
FetchFailure(shape, res) ==
    \/ res.net = "reject"
    \/ ~Ok(res)
    \/ res.body.parse = "throws"
    \/ ~WellFormed(shape, res.body.json)

\* C9 as stated: on every upstream fetch failure each of the six functions
\* catches the failure and returns null (getProduct) or an empty list (the
\* others), and never rejects.
C9_FailuresDegradeAsStated ==
    (result # NoResult /\ FetchFailure(result.shape, upstream.a)) =>
        /\ ~result.rejects
        /\ result.value = IF result.fn = "getProduct" THEN Null ELSE Arr(<<>>)

\* C9, the part that holds: none of the six functions ever rejects, and on a
\* network rejection, a non-OK status or an unparsable body each returns
\* null (getProduct) or an empty list.
C9_TransportFailuresDegrade ==
    result # NoResult =>
        /\ ~result.rejects
        /\ (\/ upstream.a.net = "reject"
            \/ upstream.a.body.parse = "throws"
            \/ (~Ok(upstream.a) /\ result.fn # "generateStaticParams")) =>
              result.value = IF result.fn = "getProduct" THEN Null
                             ELSE Arr(<<>>)

\* C9 witness of the divergence: getAllProducts on a 200 response whose body
\* has no products field returns undefined.
C9_Witness ==
    /\ result # NoResult
    /\ result.fn = "getAllProducts"
    /\ upstream.a = Http(200, Json(Obj(<<>>)))
    /\ result.value = Undef

-----------------------------------------------------------------------------
(* SpecDetail: the product detail page and its metadata *)

\* rendering reads product.images[0]: it throws when the record has no images
RenderThrows(product) == ~Has(product, "images")

\* the page component; an exception that leaves it reaches the error
\* boundary (kind "error"), notFound() renders the not-found page
ProductDetailPage(resA, resB) ==
    LET fetched == getProduct(resA) IN
    IF fetched.rejects THEN [kind |-> "error"]
    ELSE IF ~TruthyV(fetched.value) THEN [kind |-> "notFound"]
    ELSE LET product == fetched.value
             currentId == IF Has(product, "id") THEN product.f.id ELSE 0
             related == getRelatedProducts(resB, currentId, DefaultLimit)
         IN  IF related.rejects \/ RenderThrows(product)
             THEN [kind |-> "error"]
             ELSE [kind |-> "page", product |-> product.f.id,
                   related |-> related.value.items,
                   discounted |-> product.f.discountPercentage > 0]

generateMetadata(resA) ==
    LET fetched == getProduct(resA) IN
    IF fetched.rejects THEN [kind |-> "error"]
    ELSE IF ~TruthyV(fetched.value)
    THEN [kind |-> "notFound", title |-> "Product Not Found | ShopFlow"]
    ELSE [kind |-> "product", title |-> "${product.title} | ShopFlow",
          product |-> Get(fetched.value, "title")]

DetailInit ==
    /\ upstream \in { [a |-> ra, b |-> rb] :
                        ra \in ResponsesWith(ProductBodies \cup MalformedBodies),
                        rb \in ResponsesWith(ListBodies \cup MalformedBodies) }
    /\ params = NoParams
    /\ result = NoResult
    /\ page = NoPage
    /\ meta = NoMeta
    /\ life = ProductListLife
    /\ LifeIdle
    /\ UiIdle
    /\ CacheIdle

GenerateMetadata ==
    /\ meta = NoMeta
    /\ meta' = generateMetadata(upstream.a)
    /\ UNCHANGED <<upstream, params, result, page>>
    /\ UNCHANGED <<age, life, status>>
    /\ UNCHANGED uiVars
    /\ UNCHANGED cacheVars

RenderDetail ==
    /\ page = NoPage
    /\ page' = ProductDetailPage(upstream.a, upstream.b)
    /\ UNCHANGED <<upstream, params, result, meta>>
    /\ UNCHANGED <<age, life, status>>
    /\ UNCHANGED uiVars
    /\ UNCHANGED cacheVars

DetailNext ==
    \/ GenerateMetadata
    \/ RenderDetail

SpecDetail == DetailInit /\ [][DetailNext]_vars

Is404(res) == res.net = "ok" /\ res.status = 404

\* C8: when the API answers 404 for the product, getProduct returns null,
\* the page renders the not-found presentation, generateMetadata returns the
\* 'Product Not Found' metadata, and no exception reaches the user.
C8_MissingProductNotFound ==
    Is404(upstream.a) =>
        /\ getProduct(upstream.a) = Returns(Null)
        /\ page # NoPage => page.kind = "notFound"
        /\ meta # NoMeta =>
              /\ meta.kind = "notFound"
              /\ meta.title = "Product Not Found | ShopFlow"

\* C8 witness: a 404 answer, rendered and described as not found.
C8_Witness ==
    /\ Is404(upstream.a)
    /\ page.kind = "notFound"
    /\ meta.kind = "notFound"

\* C10 as stated: only the missing product (404) leads to the not-found
\* presentation; every other upstream failure leads to a different outcome.
C10_OnlyMissingIsNotFound ==
    page.kind = "notFound" => Is404(upstream.a)

\* C10, what the code does instead: every failure of the product fetch
\* (network rejection, any non-OK status, unparsable body) renders the same
\* not-found presentation as a 404.
C10_EveryFailureIsNotFound ==
    (/\ page # NoPage
     /\ \/ upstream.a.net = "reject"
        \/ ~Ok(upstream.a)
        \/ upstream.a.body.parse = "throws") => page.kind = "notFound"

\* C10 witness of the divergence: a 500 answer rendered as not found.
C10_Witness ==
    /\ upstream.a.net = "ok"
    /\ upstream.a.status = 500
    /\ page.kind = "notFound"

-----------------------------------------------------------------------------
(* Strings: character sequences, toLowerCase, includes, parseFloat *)

LowerOf(c) ==
    CASE c = "A" -> "a" [] c = "B" -> "b" [] c = "C" -> "c"
      [] c = "X" -> "x" [] c = "Y" -> "y" [] OTHER -> c

\* s.toLowerCase()
ToLower(s) == [i \in DOMAIN s |-> LowerOf(s[i])]

\* hay.includes(needle)
Includes(hay, needle) ==
    \E i \in 1..(Len(hay) - Len(needle) + 1) :
        SubSeq(hay, i, i + Len(needle) - 1) = needle

Digits == {"0", "1", "2", "3", "4", "5", "6", "7", "8", "9"}
DigitVal(c) ==
    CASE c = "0" -> 0 [] c = "1" -> 1 [] c = "2" -> 2 [] c = "3" -> 3
      [] c = "4" -> 4 [] c = "5" -> 5 [] c = "6" -> 6 [] c = "7" -> 7
      [] c = "8" -> 8 [] c = "9" -> 9

RECURSIVE SkipSpaces(_)
SkipSpaces(s) == IF s # <<>> /\ Head(s) = " " THEN SkipSpaces(Tail(s)) ELSE s

RECURSIVE DigitRun(_)
\* the longest prefix of s made of digits
DigitRun(s) ==
    IF s # <<>> /\ Head(s) \in Digits THEN <<Head(s)>> \o DigitRun(Tail(s))
    ELSE <<>>

RECURSIVE DigitsValue(_)
DigitsValue(ds) ==
    IF ds = <<>> THEN 0
    ELSE DigitsValue(SubSeq(ds, 1, Len(ds) - 1)) * 10 + DigitVal(ds[Len(ds)])

NaN == [nan |-> TRUE, v |-> 0]

\* parseFloat(s), in tenths: leading blanks, an optional sign, the longest
\* decimal prefix; NaN when no digit starts it. Inputs carry at most one
\* fractional digit, so tenths are exact.
parseFloat(s) ==
    LET t == SkipSpaces(s)
        signed == t # <<>> /\ Head(t) \in {"-", "+"}
        sign == IF signed /\ Head(t) = "-" THEN -1 ELSE 1
        u == IF signed THEN Tail(t) ELSE t
        int == DigitRun(u)
        rest == SubSeq(u, Len(int) + 1, Len(u))
        frac == IF rest # <<>> /\ Head(rest) = "." THEN DigitRun(Tail(rest))
                ELSE <<>>
        tenth == IF frac = <<>> THEN 0 ELSE DigitVal(frac[1])
    IN  IF int = <<>> /\ frac = <<>> THEN NaN
        ELSE [nan |-> FALSE, v |-> sign * (DigitsValue(int) * 10 + tenth)]

\* a plausible slip: a bound that is not a number is no bound
GeUnlessNaN(a, b) == b.nan \/ a >= b.v

\* a >= b and a <= b on numbers: false whenever b is NaN
Ge(a, b) == ~b.nan /\ a >= b.v
Le(a, b) == ~b.nan /\ a <= b.v

-----------------------------------------------------------------------------
(* SpecCatalog: the catalog page *)

\* a plausible slip: the test is for presence, so an empty string filters
SuppliedWhenDefined(param) == param.defined

\* if (param): a parameter that is absent or empty is skipped
Supplied(param) == param.defined /\ param.s # <<>>

\* the filter callbacks read p.category, p.title, p.price: on null every
\* read throws, on a record without the field toLowerCase() throws
CategoryStep(list, ps) ==
    IF ~Supplied(ps.category) THEN Value(list)
    ELSE IF \E i \in DOMAIN list : ~Has(list[i], "category") THEN Threw
    ELSE Value(SelectSeq(list, LAMBDA p :
                   ToLower(p.f.category) = ToLower(ps.category.s)))

SearchStep(list, ps) ==
    IF ~Supplied(ps.search) THEN Value(list)
    ELSE IF \E i \in DOMAIN list : ~Has(list[i], "title") THEN Threw
    ELSE LET searchLower == ToLower(ps.search.s) IN
         Value(SelectSeq(list, LAMBDA p :
                   \/ Includes(ToLower(p.f.title), searchLower)
                   \/ Includes(ToLower(p.f.description), searchLower)
                   \/ Includes(ToLower(p.f.brand), searchLower)))

MinPriceStep(list, ps) ==
    IF ~Supplied(ps.minPrice) THEN Value(list)
    ELSE IF \E i \in DOMAIN list : Nullish(list[i]) THEN Threw
    ELSE Value(SelectSeq(list, LAMBDA p :
                   Has(p, "price") /\ Ge(p.f.price, parseFloat(ps.minPrice.s))))

\* a plausible slip: the last filter starts again from the full set
MaxPriceStepFromAll(list, all, ps) ==
    IF ~Supplied(ps.maxPrice) THEN Value(list)
    ELSE IF \E i \in DOMAIN all : Nullish(all[i]) THEN Threw
    ELSE Value(SelectSeq(all, LAMBDA p :
                   Has(p, "price") /\ Le(p.f.price, parseFloat(ps.maxPrice.s))))

\* all is the full fetched set, list what the earlier filters left of it
MaxPriceStep(list, all, ps) ==
    IF ~Supplied(ps.maxPrice) THEN Value(list)
    ELSE IF \E i \in DOMAIN list : Nullish(list[i]) THEN Threw
    ELSE Value(SelectSeq(list, LAMBDA p :
                   Has(p, "price") /\ Le(p.f.price, parseFloat(ps.maxPrice.s))))

\* the page component: the two fetches awaited together, then the filters
\* in source order, then the grid (ProductCard reads product.description)
ProductsPage(ps, resA, resB) ==
    LET fetchedA == getAllProducts(resA)
        fetchedB == getCategories(resB)
    IN
    IF fetchedA.rejects \/ fetchedB.rejects THEN [kind |-> "error"]
    ELSE IF fetchedA.value.t # "array" THEN [kind |-> "error"]
    ELSE LET allProducts == fetchedA.value.items
             s1 == CategoryStep(allProducts, ps)
             s2 == IF s1.threw THEN Threw ELSE SearchStep(s1.value, ps)
             s3 == IF s2.threw THEN Threw ELSE MinPriceStep(s2.value, ps)
             s4 == IF s3.threw THEN Threw
                   ELSE MaxPriceStep(s3.value, allProducts, ps)
         IN  IF s4.threw THEN [kind |-> "error"]
             ELSE IF \E i \in DOMAIN s4.value :
                         ~Has(s4.value[i], "description")
             THEN [kind |-> "error"]
             ELSE [kind |-> "page", products |-> s4.value,
                   categories |-> fetchedB.value,
                   empty |-> Len(s4.value) = 0]

CategoryParams == {Undefined, Str(<<>>), Str(<<"A">>), Str(<<"b">>)}
SearchParams == {Undefined, Str(<<>>), Str(<<"B">>), Str(<<"x", "Y">>)}
PriceParams ==
    {Undefined, Str(<<>>), Str(<<"1">>), Str(<<"1", ".", "5">>),
     Str(<<"x">>), Str(<<" ", "2", "x">>)}

CatalogResponses ==
    { Http(200, Json(b)) : b \in ListBodies }
    \cup { NetworkError, Http(500, Json(Obj([message |-> StrV(<<"e">>)]))),
           Http(200, Unparsable), Http(200, Json(Obj(<<>>))),
           Http(200, Json(Obj([products |-> Arr(<<Null>>)]))),
           Http(200, Json(Obj([products |-> Arr(<<Obj(<<>>)>>)]))) }

CatalogInit ==
    /\ upstream \in { [a |-> ra, b |-> rb] :
                        ra \in CatalogResponses,
                        rb \in { NetworkError,
                                 Http(200, Json(Arr(<<Category(<<"a">>),
                                                      Category(<<"b">>)>>))) } }
    /\ params \in [category : CategoryParams, search : SearchParams,
                   minPrice : PriceParams, maxPrice : PriceParams]
    /\ result = NoResult
    /\ page = NoPage
    /\ meta = NoMeta
    /\ life = ProductListLife
    /\ LifeIdle
    /\ UiIdle
    /\ CacheIdle

RenderCatalog ==
    /\ page = NoPage
    /\ page' = ProductsPage(params, upstream.a, upstream.b)
    /\ UNCHANGED <<upstream, params, result, meta>>
    /\ UNCHANGED <<age, life, status>>
    /\ UNCHANGED uiVars
    /\ UNCHANGED cacheVars

CatalogNext == RenderCatalog

SpecCatalog == CatalogInit /\ [][CatalogNext]_vars

FilterNames == {"category", "search", "minPrice", "maxPrice"}

\* the parameters with only filter f kept
OnlyFilter(ps, f) == [k \in FilterNames |-> IF k = f THEN ps[k] ELSE Undefined]

\* what the page shows when filter f alone is applied to the fetched set
Alone(f) == ProductsPage(OnlyFilter(params, f), upstream.a, upstream.b)

Range(q) == { q[i] : i \in DOMAIN q }

\* C7: the products displayed are exactly those of the full fetched set, in
\* its order, that each supplied filter keeps when applied alone to the full
\* set.
C7_FiltersCompose ==
    page.kind = "page" =>
        LET supplied == { f \in FilterNames : Supplied(params[f]) }
            all == getAllProducts(upstream.a).value.items
        IN  /\ \A f \in supplied : Alone(f).kind = "page"
            /\ page.products =
                 SelectSeq(all, LAMBDA p :
                     \A f \in supplied : p \in Range(Alone(f).products))

\* C7 witness: all four filters supplied, two of them rejecting a product
\* that the others keep, and a product displayed.
C7_Witness ==
    /\ page.kind = "page"
    /\ \A f \in FilterNames : Supplied(params[f])
    /\ page.products # <<>>
    /\ \E f \in FilterNames :
          Len(Alone(f).products) > Len(page.products)

-----------------------------------------------------------------------------
(* SpecPrices: the price block of the home card, the catalog card and the
   detail page.  Prices are in cents, discountPercentage in tenths of a
   percent; hasDiscount is false for a product record without the field. *)

MaxPrice == 12

Discounts == {-50, 0, 4, 5, 125, 250, 500, 600, 999, 1000, 1200}

\* numbers: a quotient of integers with a positive denominator, or one of
\* the values a division by zero yields
Q(n, d) == [k |-> "num", num |-> n, den |-> d]
Infinity == [k |-> "Infinity", num |-> 0, den |-> 1]
NotANumber == [k |-> "NaN", num |-> 0, den |-> 1]

\* a plausible slip: the discount added on top of the price
OriginalPriceMarkup(price, discount) ==
    Q(price * (1000 + discount), 1000)

\* product.price / (1 - product.discountPercentage / 100)
OriginalPrice(price, discount) ==
    IF discount = 1000
    THEN IF price = 0 THEN NotANumber ELSE Infinity
    ELSE IF discount < 1000
    THEN Q(price * 1000, 1000 - discount)
    ELSE Q(-(price * 1000), discount - 1000)

\* x - product.price
Minus(x, price) ==
    IF x.k = "num" THEN Q(x.num - price * x.den, x.den) ELSE x

\* a number used as a condition: 0 and NaN are falsy
TruthyNumber(x) == x.k = "Infinity" \/ (x.k = "num" /\ x.num # 0)

Text(cents) == [k |-> "num", cents |-> cents]

\* x.toFixed(2): the nearest number of cents.  On an exact half cent the
\* binary value of x decides, so either neighbour can be printed.
toFixed2(x) ==
    IF x.k # "num" THEN {[k |-> x.k, cents |-> 0]}
    ELSE LET lo == x.num \div x.den
             r == x.num % x.den
         IN  IF 2 * r < x.den THEN {Text(lo)}
             ELSE IF 2 * r > x.den THEN {Text(lo + 1)}
             ELSE {Text(lo), Text(lo + 1)}

\* Math.round(product.discountPercentage), in percent
MathRound(discount) == (discount + 5) \div 10

\* a plausible slip: >= in place of >
DiscountAppliesFromZero(p) == p.hasDiscount /\ p.discount >= 0

\* product.discountPercentage > 0 (undefined > 0 is false)
DiscountApplies(p) == p.hasDiscount /\ p.discount > 0

Hidden == [shown |-> FALSE]
Shown(text) == [shown |-> TRUE, text |-> text]
Badge(p) ==
    IF DiscountApplies(p)
    THEN [shown |-> TRUE, percent |-> MathRound(p.discount)]
    ELSE Hidden

\* the cards of the home page and of the catalog: badge and original price
\* under the same condition, no savings line
CardPrices(surface, p, text) ==
    [surface |-> surface,
     badge |-> Badge(p),
     original |-> IF DiscountApplies(p) THEN Shown(text) ELSE Hidden,
     savings |-> Hidden]

\* const discountedPrice = discountPercentage > 0 ? price / (...) : null
discountedPrice(p) ==
    IF DiscountApplies(p)
    THEN [null |-> FALSE, x |-> OriginalPrice(p.price, p.discount)]
    ELSE [null |-> TRUE, x |-> Q(0, 1)]

\* the detail page: {discountedPrice && ...} and the savings line
DetailPrices(p, text, saved) ==
    LET dp == discountedPrice(p) IN
    [surface |-> "detail",
     badge |-> Badge(p),
     original |-> IF ~dp.null /\ TruthyNumber(dp.x) THEN Shown(text)
                  ELSE Hidden,
     savings |-> IF DiscountApplies(p)
                 THEN [shown |-> TRUE, text |-> saved,
                       percent |-> MathRound(p.discount)]
                 ELSE Hidden]

\* the texts the expressions of a card print for product p
OriginalTexts(p) ==
    IF ~p.hasDiscount THEN {Text(0)}
    ELSE toFixed2(OriginalPrice(p.price, p.discount))

SavedTexts(p) ==
    IF ~p.hasDiscount THEN {Text(0)}
    ELSE toFixed2(Minus(OriginalPrice(p.price, p.discount), p.price))

PricesInit ==
    /\ item \in { p \in [price : 0..MaxPrice, hasDiscount : BOOLEAN,
                          discount : Discounts] :
                    ~p.hasDiscount => p.discount = 0 }
    /\ card = NoCard
    /\ ErrorsIdle
    /\ StreamIdle
    /\ TimelineIdle
    /\ IsrIdle
    /\ PprIdle
    /\ ButtonIdle
    /\ life = ProductListLife
    /\ LifeIdle
    /\ CacheIdle
    /\ PagesIdle

RenderHomeCard ==
    /\ card = NoCard
    /\ \E t \in OriginalTexts(item) : card' = CardPrices("home", item, t)
    /\ UNCHANGED <<item, age, life, status>>
    /\ UNCHANGED <<errVars, streamVars, timelineVars, isrVars,
                 pprVars, buttonVars>>
    /\ UNCHANGED cacheVars
    /\ UNCHANGED pageVars

RenderProductCard ==
    /\ card = NoCard
    /\ \E t \in OriginalTexts(item) : card' = CardPrices("catalog", item, t)
    /\ UNCHANGED <<item, age, life, status>>
    /\ UNCHANGED <<errVars, streamVars, timelineVars, isrVars,
                 pprVars, buttonVars>>
    /\ UNCHANGED cacheVars
    /\ UNCHANGED pageVars

RenderDetailPrices ==
    /\ card = NoCard
    /\ \E t \in OriginalTexts(item), sv \in SavedTexts(item) :
          card' = DetailPrices(item, t, sv)
    /\ UNCHANGED <<item, age, life, status>>
    /\ UNCHANGED <<errVars, streamVars, timelineVars, isrVars,
                 pprVars, buttonVars>>
    /\ UNCHANGED cacheVars
    /\ UNCHANGED pageVars

PricesNext == RenderHomeCard \/ RenderProductCard \/ RenderDetailPrices

SpecPrices == PricesInit /\ [][PricesNext]_vars

Rendered == card.surface # "none"
ProperDiscount == item.hasDiscount /\ 0 < item.discount
                  /\ item.discount < 1000
Abs(n) == IF n < 0 THEN -n ELSE n

\* C11 as stated: the displayed original price equals P / (1 - D/100)
\* exactly, and the displayed savings equal it minus P.
C11_ExactAsStated ==
    (Rendered /\ ProperDiscount) =>
        /\ card.original.shown =>
             card.original.text.cents * (1000 - item.discount)
               = item.price * 1000
        /\ card.savings.shown =>
             (card.savings.text.cents + item.price) * (1000 - item.discount)
               = item.price * 1000

\* C11: for 0 < D < 100 every surface shows the original price of a product
\* with a non-zero price, and what it shows is P / (1 - D/100) to the
\* nearest cent; the detail page shows the savings, which are that quotient
\* minus P to the nearest cent.
C11_OriginalPriceToTheCent ==
    (Rendered /\ ProperDiscount) =>
        /\ item.price > 0 => card.original.shown
        /\ card.original.shown =>
             /\ card.original.text.k = "num"
             /\ 2 * Abs(card.original.text.cents * (1000 - item.discount)
                          - item.price * 1000) <= 1000 - item.discount
        /\ card.surface = "detail" => card.savings.shown
        /\ card.savings.shown =>
             /\ card.savings.text.k = "num"
             /\ 2 * Abs((card.savings.text.cents + item.price)
                            * (1000 - item.discount)
                          - item.price * 1000) <= 1000 - item.discount

\* C11 witness: the detail page of a product at 0.09 with 12.5% off shows
\* 0.10 and savings of 0.01, neither of them the exact quotient.
C11_Witness ==
    /\ card.surface = "detail"
    /\ item = [price |-> 9, hasDiscount |-> TRUE, discount |-> 125]
    /\ card.original = Shown(Text(10))
    /\ card.savings.shown /\ card.savings.text = Text(1)

\* C12: a product with discount percentage 0 is rendered with no original
\* price, no savings line and no discount badge on any of the three surfaces.
C12_NoDiscountNothingShown ==
    (Rendered /\ item.hasDiscount /\ item.discount = 0) =>
        /\ ~card.original.shown
        /\ ~card.savings.shown
        /\ ~card.badge.shown

\* C12 witness: the detail page of an undiscounted product, bare.
C12_Witness ==
    /\ card.surface = "detail"
    /\ item.hasDiscount /\ item.discount = 0
    /\ item.price > 0
    /\ card.original = Hidden /\ card.savings = Hidden /\ card.badge = Hidden

\* C12 witness on the cards: the home card and the catalog card likewise.
C12_WitnessCards ==
    /\ card.surface \in {"home", "catalog"}
    /\ item.hasDiscount /\ item.discount = 0
    /\ card.original = Hidden /\ card.badge = Hidden

-----------------------------------------------------------------------------
(* SpecErrors: a route segment rendered behind its error boundary *)

MaxResets == 2

Routes == {"catalog", "detail"}

\* the error handed to the fallback: error.message and error.digest
ErrorProps ==
    [message : {<<>>, <<"e">>},
     digest : {Undefined, Str(<<>>), Str(<<"d">>)}]

\* a plausible slip: the digest printed beside the details block
ErrorFallbackDigestOutside(route, error) ==
    [title |-> IF route = "detail" THEN "Failed to Load Product"
               ELSE "Oops! Something went wrong",
     generic |-> TRUE,
     details |-> error.message # <<>>,
     text |-> IF error.message # <<>> THEN error.message ELSE <<>>,
     digest |-> Supplied(error.digest),
     retry |-> "Try Again",
     link |-> IF route = "detail" THEN "/products" ELSE "/"]

\* ProductDetailError and ProductsError: what the fallback shows
ErrorFallback(route, error) ==
    [title |-> IF route = "detail" THEN "Failed to Load Product"
               ELSE "Oops! Something went wrong",
     generic |-> TRUE,
     details |-> error.message # <<>>,
     text |-> IF error.message # <<>> THEN error.message ELSE <<>>,
     digest |-> error.message # <<>> /\ Supplied(error.digest),
     retry |-> "Try Again",
     link |-> IF route = "detail" THEN "/products" ELSE "/"]

\* a plausible slip: a failed fetch issued a second time
RequestsRetrying(fn, res) ==
    IF res.net = "reject" \/ ~Ok(res) THEN <<fn, fn>> ELSE <<fn>>

\* the upstream requests one invocation of a data-fetch function issues:
\* the single fetch of its try block, the catch block issuing none
Requests(fn, res) == <<fn>>

\* the data-fetch functions one render of the route invokes, with the
\* response each gets
Invocations(route, resA, resB) ==
    IF route = "catalog"
    THEN << [fn |-> "getAllProducts", res |-> resA],
            [fn |-> "getCategories", res |-> resB] >>
    ELSE IF TruthyV(getProduct(resA).value)
    THEN << [fn |-> "getProduct", res |-> resA],
            [fn |-> "getRelatedProducts", res |-> resB] >>
    ELSE << [fn |-> "getProduct", res |-> resA] >>

RECURSIVE Issued(_, _)
\* the requests of a sequence of invocations, tagged with the attempt
Issued(invs, n) ==
    IF invs = <<>> THEN <<>>
    ELSE [i \in DOMAIN Requests(invs[1].fn, invs[1].res) |->
             <<Requests(invs[1].fn, invs[1].res)[i], n>>]
         \o Issued(Tail(invs), n)

RenderRoute(route, resA, resB) ==
    IF route = "catalog" THEN ProductsPage(NoParams, resA, resB)
    ELSE ProductDetailPage(resA, resB)

SegmentA(route) ==
    IF route = "catalog"
    THEN { NetworkError, Http(500, Unparsable), Http(200, Json(Obj(<<>>))),
           Http(200, Json(Obj([products |-> Arr(<<Catalogue[1]>>),
                               total |-> 1]))) }
    ELSE { NetworkError, Http(404, Unparsable), Http(200, Json(Obj(<<>>))),
           Http(200, Json(Catalogue[1])) }

SegmentB(route) ==
    IF route = "catalog"
    THEN { NetworkError, Http(200, Json(Arr(<<Category(<<"a">>)>>))) }
    ELSE { NetworkError,
           Http(200, Json(Obj([products |-> Arr(<<Catalogue[2]>>),
                               total |-> 1]))) }

ErrorsInit ==
    /\ boundary \in { [route |-> r, state |-> "rendering"] : r \in Routes }
    /\ invoked = <<>>
    /\ wire = <<>>
    /\ attempts = 0
    /\ resets = 0
    /\ PricesIdle
    /\ StreamIdle
    /\ TimelineIdle
    /\ IsrIdle
    /\ PprIdle
    /\ ButtonIdle
    /\ PagesIdle
    /\ life = ProductListLife
    /\ LifeIdle
    /\ CacheIdle

\* one render of the segment: the page component runs; what it throws
\* reaches the boundary, which shows the fallback
RenderSegment ==
    /\ boundary.state = "rendering"
    /\ \E resA \in SegmentA(boundary.route), resB \in SegmentB(boundary.route) :
         LET invs == Invocations(boundary.route, resA, resB)
             pg == RenderRoute(boundary.route, resA, resB)
             n == attempts + 1
         IN  /\ upstream' = [a |-> resA, b |-> resB]
             /\ page' = pg
             /\ attempts' = n
             /\ invoked' = invoked \o [i \in DOMAIN invs |-> <<invs[i].fn, n>>]
             /\ wire' = wire \o Issued(invs, n)
             /\ IF pg.kind = "error"
                THEN \E err \in ErrorProps :
                        boundary' = [route |-> boundary.route,
                                     state |-> "fallback", error |-> err,
                                     view |-> ErrorFallback(boundary.route, err)]
                ELSE boundary' = [route |-> boundary.route, state |-> pg.kind]
    /\ UNCHANGED <<params, result, meta, resets>>
    /\ UNCHANGED <<age, life, status>>
    /\ UNCHANGED <<priceVars, streamVars, timelineVars, isrVars,
                 pprVars, buttonVars>>
    /\ UNCHANGED cacheVars

\* <button onClick={reset}>Try Again</button>
Reset ==
    /\ boundary.state = "fallback"
    /\ resets < MaxResets
    /\ resets' = resets + 1
    /\ boundary' = [route |-> boundary.route, state |-> "rendering"]
    /\ UNCHANGED <<invoked, wire, attempts>>
    /\ UNCHANGED pageVars
    /\ UNCHANGED <<age, life, status>>
    /\ UNCHANGED <<priceVars, streamVars, timelineVars, isrVars,
                 pprVars, buttonVars>>
    /\ UNCHANGED cacheVars

\* <Link href=...>: the user leaves the segment
FollowLink ==
    /\ boundary.state = "fallback"
    /\ boundary' = [route |-> boundary.route, state |-> "left",
                    to |-> boundary.view.link]
    /\ UNCHANGED <<invoked, wire, attempts, resets>>
    /\ UNCHANGED pageVars
    /\ UNCHANGED <<age, life, status>>
    /\ UNCHANGED <<priceVars, streamVars, timelineVars, isrVars,
                 pprVars, buttonVars>>
    /\ UNCHANGED cacheVars

ErrorsNext == RenderSegment \/ Reset \/ FollowLink

SpecErrors == ErrorsInit /\ [][ErrorsNext]_vars

Count(q, x) == Cardinality({ i \in DOMAIN q : q[i] = x })

\* C13: every invocation of a data-fetch function issues at most one upstream
\* request whatever its outcome, and the segment is rendered once plus once
\* per press of the retry button, never otherwise.
C13_NothingRetriedAutomatically ==
    /\ \A i \in DOMAIN invoked : Count(wire, invoked[i]) <= 1
    /\ \A i \in DOMAIN wire : Count(invoked, wire[i]) = 1
    /\ attempts <= resets + 1
    /\ boundary.state \in {"fallback", "left"} => attempts = resets + 1

\* C13 witness: the fallback is showing for the second time, after one press
\* of the retry button, each of the two renders having issued one request
\* per function.
C13_Witness ==
    /\ boundary.state = "fallback"
    /\ resets = 1
    /\ attempts = 2
    /\ Count(wire, <<"getAllProducts", 1>>) = 1
    /\ Count(wire, <<"getAllProducts", 2>>) = 1
    /\ Len(wire) = 4

\* C13 witness of a failed fetch: getProduct met a network error and the
\* render ended with that single request.
C13_WitnessFailedFetch ==
    /\ boundary.route = "detail"
    /\ upstream.a = NetworkError
    /\ attempts = 1
    /\ wire = << <<"getProduct", 1>> >>

\* C15: the fallback always carries the generic message, the retry button and
\* the link away; the error text is revealed exactly when error.message is
\* non-empty, and the digest exactly when it is present inside that block.
C15_FallbackDisplay ==
    boundary.state = "fallback" =>
        LET v == boundary.view
            e == boundary.error
        IN  /\ v.generic
            /\ v.retry = "Try Again"
            /\ v.link \in {"/", "/products"}
            /\ v.details <=> e.message # <<>>
            /\ v.details => v.text = e.message
            /\ v.digest <=> (e.message # <<>> /\ Supplied(e.digest))
            /\ v.digest => v.details

\* C15 witness: an error with a digest but an empty message, shown without
\* details and without the digest.
C15_Witness ==
    /\ boundary.state = "fallback"
    /\ boundary.error.message = <<>>
    /\ boundary.error.digest = Str(<<"d">>)
    /\ ~boundary.view.details
    /\ ~boundary.view.digest

\* C15 witness with details: message and digest both shown.
C15_WitnessDetails ==
    /\ boundary.state = "fallback"
    /\ boundary.view.details
    /\ boundary.view.digest

-----------------------------------------------------------------------------
(* SpecStream: the streaming page, its shell and its two suspense
   boundaries.  Time is in seconds. *)

MaxClock == 5

\* setTimeout(resolve, 2000) of fetchProducts
ProductListDelay == 2
\* setTimeout(resolve, 3000) of fetchRecommended
RecommendedDelay == 3

Delay(b) == IF b = "ProductList" THEN ProductListDelay ELSE RecommendedDelay

\* the computation a boundary's child starts when the page is rendered:
\* ProductList is a "use cache" function, so on a cache hit its body (and
\* its delay) does not run
Started(b, hit, t) ==
    IF b = "ProductList" /\ hit
    THEN [state |-> "resolved", due |-> 0, at |-> t]
    ELSE [state |-> "pending", due |-> t + Delay(b), at |-> 0]

\* StreamingPage returns: the shell goes out with, for each boundary, its
\* fallback while the child is pending.  A child that is already resolved
\* is either written into the shell or attached right after it.
EmitShell ==
    /\ sent = <<>>
    /\ \E hit \in BOOLEAN, inline \in BOOLEAN :
         LET t == [b \in Boundaries |-> Started(b, hit, clock)]
             sl == [b \in Boundaries |->
                      IF t[b].state = "resolved" /\ inline THEN "content"
                      ELSE "placeholder"]
         IN  /\ hit \/ ~inline
             /\ tasks' = t
             /\ slots' = sl
             /\ sent' = <<[kind |-> "shell", slots |-> sl, at |-> clock]>>
    /\ UNCHANGED clock
    /\ UNCHANGED <<priceVars, errVars, timelineVars, isrVars,
                 pprVars, buttonVars>>
    /\ UNCHANGED <<age, life, status>>
    /\ UNCHANGED pageVars
    /\ UNCHANGED cacheVars

\* the timer of a child fires, at its due time or later: the child resolves
TimerFires(b) ==
    /\ tasks[b].state = "pending"
    /\ clock >= tasks[b].due
    /\ tasks' = [tasks EXCEPT ![b] = [state |-> "resolved",
                                      due |-> tasks[b].due, at |-> clock]]
    /\ UNCHANGED <<clock, sent, slots>>
    /\ UNCHANGED <<priceVars, errVars, timelineVars, isrVars,
                 pprVars, buttonVars>>
    /\ UNCHANGED <<age, life, status>>
    /\ UNCHANGED pageVars
    /\ UNCHANGED cacheVars

\* a plausible slip: boundaries revealed only when all have resolved
FlushableTogether(b) ==
    /\ slots[b] = "placeholder"
    /\ \A c \in Boundaries : tasks[c].state = "resolved"

\* a boundary whose child has resolved and whose fallback is still showing
Flushable(b) ==
    /\ slots[b] = "placeholder"
    /\ tasks[b].state = "resolved"

\* the content of a resolved boundary is written to the response and
\* replaces the fallback
Flush(b) ==
    /\ Flushable(b)
    /\ slots' = [slots EXCEPT ![b] = "content"]
    /\ sent' = Append(sent, [kind |-> "content", boundary |-> b, at |-> clock])
    /\ UNCHANGED <<clock, tasks>>
    /\ UNCHANGED <<priceVars, errVars, timelineVars, isrVars,
                 pprVars, buttonVars>>
    /\ UNCHANGED <<age, life, status>>
    /\ UNCHANGED pageVars
    /\ UNCHANGED cacheVars

\* a second passes; writing what is ready takes no time
StreamTick ==
    /\ sent # <<>>
    /\ clock < MaxClock
    /\ \A b \in Boundaries : ~Flushable(b)
    /\ clock' = clock + 1
    /\ UNCHANGED <<sent, slots, tasks>>
    /\ UNCHANGED <<priceVars, errVars, timelineVars, isrVars,
                 pprVars, buttonVars>>
    /\ UNCHANGED <<age, life, status>>
    /\ UNCHANGED pageVars
    /\ UNCHANGED cacheVars

StreamInit ==
    /\ clock \in 0..1
    /\ sent = <<>>
    /\ slots = [b \in Boundaries |-> "none"]
    /\ tasks = [b \in Boundaries |-> NoTask]
    /\ PricesIdle
    /\ ErrorsIdle
    /\ TimelineIdle
    /\ IsrIdle
    /\ PprIdle
    /\ ButtonIdle
    /\ PagesIdle
    /\ life = ProductListLife
    /\ LifeIdle
    /\ CacheIdle

StreamNext ==
    \/ EmitShell
    \/ \E b \in Boundaries : TimerFires(b)
    \/ \E b \in Boundaries : Flush(b)
    \/ StreamTick

SpecStream == StreamInit /\ [][StreamNext]_vars

-----------------------------------------------------------------------------
(* POST /api/revalidate under SpecHandlers *)

PostRan == lastOp.name = "POST"

\* the body parsed to an object carrying a non-empty string path
CarriesPath(body) ==
    body.json = "object" /\ body.type = "string" /\ PathTruthy(body)

\* the revalidatePath calls that returned
Revalidations ==
    SelectSeq(lastCalls, LAMBDA c : c.fn = "revalidatePath" /\ c.profile = "none")

\* C16: POST with a body carrying a non-empty path calls revalidatePath
\* exactly once, with that path, and answers 200 with revalidated = true and
\* the same path.
C16_PathRevalidatedAndEchoed ==
    (PostRan /\ CarriesPath(lastOp.request)) =>
        /\ Len(lastCalls) = 1
        /\ lastCalls[1].fn = "revalidatePath"
        /\ lastCalls[1].arg = lastOp.request.path.s
        /\ lastCalls[1].profile = "none"
        /\ lastOp.status = 200
        /\ lastOp.revalidated
        /\ lastOp.path = lastOp.request.path

\* C16 witness: the products path, which is not the button's own, posted.
C16_Witness ==
    /\ PostRan
    /\ lastOp.request.path = Str(OtherPath)
    /\ lastOp.status = 200
    /\ lastOp.path = Str(OtherPath)
    /\ Len(lastCalls) = 1

\* C20: on bad input POST invalidates nothing and still answers: 400 'Path
\* is required' with no revalidatePath call when the body has no path, 500
\* 'Error revalidating' when reading the body or revalidating throws.
C20_BadInputAnswered ==
    PostRan =>
        LET body == lastOp.request IN
        /\ lastOp.status \in {200, 400, 500}
        /\ (body.json = "object" /\ ~PathTruthy(body)) =>
              /\ lastOp.status = 400
              /\ lastOp.message = "Path is required"
              /\ lastCalls = <<>>
        /\ (body.json # "object" \/ (PathTruthy(body) /\ body.fault)) =>
              /\ lastOp.status = 500
              /\ lastOp.message = "Error revalidating"
              /\ Revalidations = <<>>
        /\ lastOp.status # 200 =>
              /\ ~lastOp.revalidated
              /\ \A i \in DOMAIN lastCalls : ~lastCalls[i].hit

\* C20, the step: a POST that does not answer 200 leaves the cached entry,
\* the recomputation in flight and the retired values as they were.
C20_BadInputInvalidatesNothing ==
    [][(lastOp'.name = "POST" /\ lastOp'.status # 200) =>
          /\ entry' = entry
          /\ regen' = regen
          /\ retired' = retired]_vars

\* C20 witness: an empty path answered 400 with nothing called.
C20_Witness ==
    /\ PostRan
    /\ lastOp.request.path = Str(<<>>)
    /\ lastOp.status = 400
    /\ lastCalls = <<>>
    /\ entry.exists

\* C20 witness of the catch: revalidatePath threw and 500 was answered.
C20_WitnessRevalidateThrew ==
    /\ PostRan
    /\ lastOp.request.fault
    /\ lastOp.status = 500
    /\ Len(lastCalls) = 1

\* C20 witness of the unreadable body.
C20_WitnessBodyThrew ==
    /\ PostRan
    /\ lastOp.request.json = "throws"
    /\ lastOp.status = 500

-----------------------------------------------------------------------------
(* SpecTimeline: the documented user timeline played against the cache *)

\* User Access Time (s) of the timeline
TimelineTimes == <<0, 100, 300, 320, 360, 900, 1800, 1820>>

\* Status column of the timeline
TimelineStatuses ==
    <<"Fresh", "Fresh", "Stale", "Stale", "Fresh", "Fresh", "Expired", "Fresh">>

\* the response to a request that found the entry in state st
Served(st, startedNow) ==
    [seen |-> st, value |-> entry.value, cached |-> entry.value,
     waited |-> FALSE, started |-> startedNow,
     inFlight |-> startedNow \/ regen.mode # "idle",
     old |-> entry.value \in retired, after |-> pending]

\* the user of the next listed time arrives and requests the entry
Arrive ==
    /\ Len(observed) < Len(TimelineTimes)
    /\ blocked = NotBlocked
    /\ LET t == TimelineTimes[Len(observed) + 1]
           st == StateAt(entry, t, life)
           starts == \/ st \in {"Expired", "Missing"}
                     \/ st # "Fresh" /\ regen.mode = "idle"
       IN  /\ starts => computations < MaxComputations
           /\ now' = t
           /\ observed' = Append(observed,
                                 [time |-> t, status |-> st,
                                  age |-> t - entry.storedAt])
           /\ computations' = IF starts THEN computations + 1 ELSE computations
           /\ regen' = IF starts
                       THEN [mode |-> IF st \in {"Expired", "Missing"}
                                      THEN "blocking" ELSE "background",
                             id |-> computations + 1, startedAt |-> t,
                             taint |-> "none"]
                       ELSE regen
           /\ IF st \in {"Expired", "Missing"}
              THEN /\ entry' = [entry EXCEPT !.exists = FALSE, !.mark = "none"]
                   /\ retired' = IF entry.exists
                                 THEN retired \cup {entry.value} ELSE retired
                   /\ blocked' = [seen |-> st, after |-> pending]
                   /\ lastResp' = NoResp
              ELSE /\ lastResp' = Served(st, starts)
                   /\ UNCHANGED <<entry, retired, blocked>>
    /\ pending' = NoPending
    /\ Quiet
    /\ UNCHANGED <<age, life, status>>
    /\ UNCHANGED pageVars
    /\ UNCHANGED <<priceVars, errVars, streamVars, isrVars,
                 pprVars, buttonVars>>

\* the entry of the configuration example, created at time 0
TimelineInit ==
    /\ life = DocLife
    /\ now = 0
    /\ entry = [exists |-> TRUE, value |-> 0, storedAt |-> 0, mark |-> "none"]
    /\ regen = [mode |-> "idle", id |-> 0, startedAt |-> 0, taint |-> "none"]
    /\ computations = 0
    /\ retired = {}
    /\ blocked = NotBlocked
    /\ lastResp = NoResp
    /\ lastOp = NoOp
    /\ lastCalls = <<>>
    /\ pending = NoPending
    /\ observed = <<>>
    /\ PricesIdle
    /\ ErrorsIdle
    /\ StreamIdle
    /\ IsrIdle
    /\ PprIdle
    /\ ButtonIdle
    /\ PagesIdle
    /\ LifeIdle

\* nobody arrives at the next listed time
NobodyArrives ==
    /\ Len(observed) < Len(TimelineTimes)
    /\ blocked = NotBlocked
    /\ LET t == TimelineTimes[Len(observed) + 1] IN
        /\ now' = t
        /\ observed' = Append(observed,
                              [time |-> t, status |-> "NoRequest",
                               age |-> t - entry.storedAt])
    /\ lastResp' = NoResp
    /\ Quiet
    /\ UNCHANGED <<entry, regen, computations, retired, blocked, pending>>
    /\ UNCHANGED <<age, life, status>>
    /\ UNCHANGED pageVars
    /\ UNCHANGED <<priceVars, errVars, streamVars, isrVars,
                 pprVars, buttonVars>>

TimelineNext == Arrive \/ NobodyArrives \/ ComputeDone

SpecTimeline == TimelineInit /\ [][TimelineNext]_vars

Seen(i) == observed[i].status

\* all eight listed requests were made
AllArrived ==
    /\ Len(observed) = Len(TimelineTimes)
    /\ \A i \in DOMAIN observed : Seen(i) # "NoRequest"

Asked(i) == Len(observed) >= i /\ Seen(i) # "NoRequest"

-----------------------------------------------------------------------------
(* SpecIsr: the product fetches of the two detail pages through the data
   cache, fetch(url, { next: { revalidate } }) *)

MaxIsrAge == 8

\* next: { revalidate: 30 } of the cache-components detail page
CacheComponentsRevalidate == 30
\* next: { revalidate: 3600 } of the src/app detail page
AppRevalidate == 3600
\* "All pages revalidate every 1 hour (3600 seconds)"
DocumentedRevalidate == 3600

Apps == {"cache-components", "app"}
DetailFetches == {"getProduct", "getRelatedProducts"}

\* the revalidate option each fetch passes; both functions of a page pass
\* the same number
Revalidate(app, fn) ==
    IF app = "cache-components" THEN CacheComponentsRevalidate
    ELSE AppRevalidate

IsrAges ==
    (0..MaxIsrAge)
    \cup { r + d : r \in {CacheComponentsRevalidate, AppRevalidate},
                   d \in {-1, 0, 1} }

\* what the data cache does with a cached response of the given age: below
\* revalidate it is served and nothing is fetched, above it is served stale
\* and refetched in the background; which side the exact second falls on is
\* the framework's comparison
DataCache(a, revalidate) ==
    IF a < revalidate THEN {[outcome |-> "fresh", refetch |-> FALSE]}
    ELSE IF a > revalidate THEN {[outcome |-> "stale", refetch |-> TRUE]}
    ELSE {[outcome |-> "fresh", refetch |-> FALSE],
          [outcome |-> "stale", refetch |-> TRUE]}

IsrInit ==
    /\ isr \in { [app |-> ap, fn |-> f, age |-> a, outcome |-> "none",
                  refetch |-> FALSE] :
                   ap \in Apps, f \in DetailFetches, a \in IsrAges }
    /\ PricesIdle
    /\ ErrorsIdle
    /\ StreamIdle
    /\ TimelineIdle
    /\ PprIdle
    /\ ButtonIdle
    /\ PagesIdle
    /\ CacheIdle
    /\ life = ProductListLife
    /\ LifeIdle

\* the page is requested and the function fetches through the cache
FetchCached ==
    /\ isr.outcome = "none"
    /\ \E o \in DataCache(isr.age, Revalidate(isr.app, isr.fn)) :
          isr' = [isr EXCEPT !.outcome = o.outcome, !.refetch = o.refetch]
    /\ UNCHANGED <<priceVars, errVars, streamVars, timelineVars,
                 pprVars, buttonVars>>
    /\ UNCHANGED <<age, life, status>>
    /\ UNCHANGED pageVars
    /\ UNCHANGED cacheVars

IsrNext == FetchCached

SpecIsr == IsrInit /\ [][IsrNext]_vars

Fetched == isr.outcome # "none"

\* C18 as stated: on the cache-components detail page a cached response
\* younger than 3600 s is served without refetching, and is revalidated in
\* the background only from 3600 s on.
C18_HourlyAsStated ==
    (Fetched /\ isr.app = "cache-components") =>
        /\ isr.age < DocumentedRevalidate => ~isr.refetch
        /\ isr.refetch => isr.age >= DocumentedRevalidate

\* C18, what the code does: both fetches of the cache-components detail page
\* pass revalidate: 30, so a cached response is served without refetching
\* only while younger than 30 s and is refetched in the background once
\* older; the src/app page is the one on the hour.
C18_ThirtySeconds ==
    Fetched =>
        /\ isr.age < Revalidate(isr.app, isr.fn) => ~isr.refetch
        /\ isr.age > Revalidate(isr.app, isr.fn) => isr.refetch
        /\ isr.app = "cache-components" =>
              Revalidate(isr.app, isr.fn) = CacheComponentsRevalidate

\* C18 witness of the divergence: a product response 31 s old on the
\* cache-components page, served stale and refetched.
C18_Witness ==
    /\ isr.app = "cache-components"
    /\ isr.fn = "getProduct"
    /\ isr.age = CacheComponentsRevalidate + 1
    /\ isr.outcome = "stale"
    /\ isr.refetch

-----------------------------------------------------------------------------
(* SpecParallel: the two fetches of the catalog page, started together and
   awaited together *)

Pending == [state |-> "pending"]
Settled(r) == [state |-> "settled", rejects |-> r.rejects, value |-> r.value]

ParallelInit ==
    /\ upstream \in { [a |-> ra, b |-> rb] :
                        ra \in CatalogResponses,
                        rb \in ResponsesWith(CategoryBodies) }
    /\ params = NoParams
    /\ result = NoResult
    /\ page = NoPage
    /\ meta = NoMeta
    /\ life = ProductListLife
    /\ LifeIdle
    /\ UiIdle
    /\ CacheIdle

\* Promise.all([getAllProducts(), getCategories()]): both calls are made
\* before anything is awaited
StartBoth ==
    /\ result = NoResult
    /\ result' = [fn |-> "Promise.all", a |-> Pending, b |-> Pending]
    /\ UNCHANGED <<upstream, params, page, meta>>
    /\ UNCHANGED <<age, life, status>>
    /\ UNCHANGED uiVars
    /\ UNCHANGED cacheVars

SettleAllProducts ==
    /\ result.fn = "Promise.all"
    /\ result.a = Pending
    /\ result' = [result EXCEPT !.a = Settled(getAllProducts(upstream.a))]
    /\ UNCHANGED <<upstream, params, page, meta>>
    /\ UNCHANGED <<age, life, status>>
    /\ UNCHANGED uiVars
    /\ UNCHANGED cacheVars

SettleCategories ==
    /\ result.fn = "Promise.all"
    /\ result.b = Pending
    /\ result' = [result EXCEPT !.b = Settled(getCategories(upstream.b))]
    /\ UNCHANGED <<upstream, params, page, meta>>
    /\ UNCHANGED <<age, life, status>>
    /\ UNCHANGED uiVars
    /\ UNCHANGED cacheVars

\* the await resumes once both have settled; the page filters and renders
AwaitBoth ==
    /\ result.fn = "Promise.all"
    /\ result.a # Pending /\ result.b # Pending
    /\ page = NoPage
    /\ page' = ProductsPage(params, upstream.a, upstream.b)
    /\ UNCHANGED <<upstream, params, result, meta>>
    /\ UNCHANGED <<age, life, status>>
    /\ UNCHANGED uiVars
    /\ UNCHANGED cacheVars

ParallelNext == StartBoth \/ SettleAllProducts \/ SettleCategories \/ AwaitBoth

SpecParallel == ParallelInit /\ [][ParallelNext]_vars

\* the fetch failed: no connection, a non-OK status or an unparsable body
Failed(res) ==
    res.net = "reject" \/ ~Ok(res) \/ res.body.parse = "throws"

\* a list of product records, as the API documents it
ProductList(v) ==
    v.t = "array" /\ \A i \in DOMAIN v.items : Has(v.items[i], "description")

C19_WitnessCategoriesFailed ==
    /\ page.kind = "page"
    /\ Failed(upstream.b)
    /\ ~Failed(upstream.a)
    /\ page.products # <<>>
    /\ page.categories = Arr(<<>>)

\* C19 witness of the concurrency: both fetches pending at once.
C19_WitnessBothPending ==
    /\ result.fn = "Promise.all"
    /\ result.a = Pending
    /\ result.b = Pending

-----------------------------------------------------------------------------
(* The rows of the status table as a partition of the ages (SpecLife) *)

\* the number of rows of the table whose condition holds at age a
RowsAt(a, l) ==
    Cardinality({ r \in {"Fresh", "Stale", "Expired"} :
                    \/ r = "Fresh" /\ TableFresh(a, l)
                    \/ r = "Stale" /\ TableStale(a, l)
                    \/ r = "Expired" /\ TableExpired(a, l) })

\* C23 as stated: for every configuration with revalidate < expire and every
\* age >= 0 exactly one of the Fresh, Stale and Expired conditions holds.
C23_ExactlyOneAsStated ==
    (status # "Unset" /\ life.revalidate < life.expire) =>
        RowsAt(age, life) = 1

\* C23 amended: with revalidate < expire the Fresh row excludes the other
\* two and the rows partition the ages exactly when revalidate + stale =
\* expire. When revalidate + stale > expire the ages from expire up to
\* revalidate + stale are both Stale and Expired (and classified Expired);
\* when revalidate + stale < expire the ages from revalidate + stale up to
\* expire are in no row (and left unclassified).
C23_ExactlyOne ==
    (status # "Unset" /\ life.revalidate < life.expire) =>
        /\ TableFresh(age, life) => RowsAt(age, life) = 1 /\ status = "Fresh"
        /\ life.revalidate + life.stale = life.expire =>
              RowsAt(age, life) = 1
        /\ RowsAt(age, life) = 2 <=>
              /\ life.revalidate + life.stale > life.expire
              /\ life.expire <= age /\ age < life.revalidate + life.stale
        /\ RowsAt(age, life) = 2 => status = "Expired"
        /\ RowsAt(age, life) = 0 <=>
              /\ life.revalidate + life.stale < life.expire
              /\ life.revalidate + life.stale <= age /\ age < life.expire
        /\ RowsAt(age, life) = 0 <=> status = "Unclassified"

\* C23 witness: ProductList's configuration (60, 90, 120) at an age both
\* Stale and Expired by the table, classified.
C23_Witness ==
    /\ status # "Unset"
    /\ life = ProductListLife
    /\ TableStale(age, life) /\ TableExpired(age, life)

\* C23 witness: the documented configuration (60, 300, 1800) at an age no
\* row covers.
C23_WitnessGap ==
    /\ status = "Unclassified"
    /\ life = DocLife
    /\ RowsAt(age, life) = 0

-----------------------------------------------------------------------------
(* The shapes getCategories tells apart (SpecFetch) *)

\* the upstream answered OK with a body that parsed
Parsed(res) == res.net = "ok" /\ Ok(res) /\ res.body.parse = "ok"

NonEmptyArray(d) == d.t = "array" /\ Len(d.items) > 0
StringFirst(d) == NonEmptyArray(d) /\ d.items[1].t = "string"
SlugFirst(d) ==
    /\ NonEmptyArray(d)
    /\ d.items[1].t = "object"
    /\ TruthyV(Get(d.items[1], "slug"))
Slugs(d) == Arr([i \in DOMAIN d.items |-> Get(d.items[i], "slug")])

CategoriesCalled == result.fn = "getCategories" /\ Parsed(upstream.a)

\* C22 as stated: the array unchanged when its first element is a string,
\* the list of slug values when its first element is an object with a truthy
\* slug, the empty list for every other body.
C22_ShapesAsStated ==
    CategoriesCalled =>
        LET d == upstream.a.body.json IN
        /\ ~result.rejects
        /\ StringFirst(d) => result.value = d
        /\ SlugFirst(d) => result.value = Slugs(d)
        /\ ~StringFirst(d) /\ ~SlugFirst(d) => result.value = Arr(<<>>)

\* C22 amended: as stated, except that the list of slug values is returned
\* only when no element of the array is null: reading the slug of a null
\* element throws inside map, and the catch answers with the empty list.
C22_Shapes ==
    CategoriesCalled =>
        LET d == upstream.a.body.json
            hasNull == NonEmptyArray(d)
                       /\ \E i \in DOMAIN d.items : Nullish(d.items[i])
        IN
        /\ ~result.rejects
        /\ StringFirst(d) => result.value = d
        /\ SlugFirst(d) /\ ~hasNull => result.value = Slugs(d)
        /\ SlugFirst(d) /\ hasNull => result.value = Arr(<<>>)
        /\ ~StringFirst(d) /\ ~SlugFirst(d) => result.value = Arr(<<>>)

\* C22 witness: an array of category objects answered with its slugs.
C22_Witness ==
    /\ CategoriesCalled
    /\ SlugFirst(upstream.a.body.json)
    /\ result.value = Arr(<<StrV(<<"a">>), StrV(<<"b">>)>>)

\* C22 witness: a category object followed by null, answered with the empty
\* list.
C22_WitnessNullElement ==
    /\ CategoriesCalled
    /\ upstream.a.body.json = Arr(<<Category(<<"a">>), Null>>)
    /\ result.value = Arr(<<>>)

\* C22 witness: a string first and null after it, returned unchanged.
C22_WitnessStringFirst ==
    /\ CategoriesCalled
    /\ result.value = Arr(<<StrV(<<"a">>), Null>>)

-----------------------------------------------------------------------------
(* The related products (SpecFetch) *)

RelatedCalled == result.fn = "getRelatedProducts"

\* the positions of the upstream list that hold another product than id
Others(items, id) ==
    { i \in DOMAIN items : ~Has(items[i], "id") \/ items[i].f.id # id }

\* the k-th smallest element of a finite set of positions
RECURSIVE Nth(_, _)
Nth(S, k) ==
    LET least == CHOOSE i \in S : \A j \in S : i <= j IN
    IF k = 1 THEN least ELSE Nth(S \ {least}, k - 1)

\* C27: for a limit of 0 or more, the list getRelatedProducts returns never
\* contains the product with id currentId, has at most limit elements, and
\* consists of the first products other than currentId of the upstream list,
\* in upstream order: as many of them as there are, up to limit.
C27_RelatedProducts ==
    RelatedCalled =>
        LET currentId == result.args[1]
            limit == result.args[2]
            out == result.value.items
        IN
        /\ ~result.rejects
        /\ result.value.t = "array"
        /\ \A i \in DOMAIN out : ~(Has(out[i], "id") /\ out[i].f.id = currentId)
        /\ Len(out) <= limit
        /\ (Parsed(upstream.a) /\ upstream.a.body.json \in ListBodies) =>
              LET items == upstream.a.body.json.f.products.items
                  others == Others(items, currentId)
              IN
              /\ Len(out) = IF Cardinality(others) <= limit
                            THEN Cardinality(others) ELSE limit
              /\ \A k \in DOMAIN out : out[k] = items[Nth(others, k)]

\* C27 witness: the current product stands first in the upstream list and the
\* limit cuts the rest.
C27_Witness ==
    /\ RelatedCalled
    /\ Parsed(upstream.a) /\ upstream.a.body.json \in ListBodies
    /\ LET items == upstream.a.body.json.f.products.items IN
       /\ Len(items) = MaxProducts
       /\ items[1].f.id = result.args[1]
       /\ result.args[2] = 1
       /\ result.value.items = <<items[2]>>

-----------------------------------------------------------------------------
(* Absent, empty and unparsable filter parameters (SpecCatalog) *)

\* the parameters with every skipped one replaced by v
Unsupplied(ps, v) ==
    [k \in FilterNames |-> IF Supplied(ps[k]) THEN ps[k] ELSE v]

\* what the page shows with filter f taken out of the request
Without(f) ==
    ProductsPage([params EXCEPT ![f] = Undefined], upstream.a, upstream.b)

\* C28: an absent and an empty parameter are interchangeable and neither
\* filters: the page is the same with every such parameter absent and with
\* every such parameter empty, and with none supplied it shows the full
\* fetched set. A supplied filter only removes the products it rejects on
\* its own from what the other filters show without it.
C28_AbsentFiltersChangeNothing ==
    page # NoPage =>
        /\ page = ProductsPage(Unsupplied(params, Undefined),
                               upstream.a, upstream.b)
        /\ page = ProductsPage(Unsupplied(params, Str(<<>>)),
                               upstream.a, upstream.b)
        /\ (page.kind = "page"
               /\ \A f \in FilterNames : ~Supplied(params[f])) =>
              page.products = getAllProducts(upstream.a).value.items
        /\ \A f \in FilterNames :
              (page.kind = "page" /\ Without(f).kind = "page"
                 /\ Supplied(params[f])) =>
                    page.products =
                        SelectSeq(Without(f).products,
                                  LAMBDA p : p \in Range(Alone(f).products))

\* C28 witness: an empty category and an empty maxPrice next to a search
\* that keeps some products of the fetched set and rejects others.
C28_Witness ==
    /\ page.kind = "page"
    /\ params.category = Str(<<>>)
    /\ params.maxPrice = Str(<<>>)
    /\ params.minPrice = Undefined
    /\ Supplied(params.search)
    /\ page.products # <<>>
    /\ Len(page.products) < Len(getAllProducts(upstream.a).value.items)

\* C28 witness: no parameter at all, the full fetched set shown.
C28_WitnessNoParameters ==
    /\ page.kind = "page"
    /\ params = NoParams
    /\ Len(page.products) = MaxProducts

\* parseFloat makes no number of the parameter
NotNumeric(param) == Supplied(param) /\ parseFloat(param.s).nan

\* the upstream answered with a product list, or failed in transport
ListOrFailure(res) ==
    \/ Failed(res)
    \/ Parsed(res) /\ res.body.json \in ListBodies

\* C29: a minPrice or maxPrice that is supplied and that parseFloat makes no
\* number of rejects every product: the page that renders is the empty "No
\* products found" state whatever the other parameters are, and it renders
\* whenever the upstream answered with a product list or failed.
C29_UnparsablePriceRejectsAll ==
    (page # NoPage
       /\ (NotNumeric(params.minPrice) \/ NotNumeric(params.maxPrice))) =>
        /\ page.kind = "page" => page.empty /\ page.products = <<>>
        /\ ListOrFailure(upstream.a) => page.kind = "page"

\* C29 witness: minPrice=x alone on a fetched set of products: nothing shown,
\* where the same request without it shows them all.
C29_Witness ==
    /\ page.kind = "page"
    /\ params.minPrice = Str(<<"x">>)
    /\ \A f \in FilterNames \ {"minPrice"} : ~Supplied(params[f])
    /\ page.empty
    /\ Without("minPrice").kind = "page"
    /\ Len(Without("minPrice").products) = MaxProducts

\* C29 witness: maxPrice=x next to filters that keep products.
C29_WitnessMaxPrice ==
    /\ page.kind = "page"
    /\ NotNumeric(params.maxPrice)
    /\ ~NotNumeric(params.minPrice)
    /\ page.empty
    /\ Without("maxPrice").kind = "page"
    /\ ~Without("maxPrice").empty

-----------------------------------------------------------------------------
(* SpecPpr: the partially prerendered detail page of src/app: the product
   data fetched through the data cache, and the DynamicTime section *)

MaxPprSteps == 3

NoStored == [has |-> FALSE, at |-> 0]
StoredAt(t) == [has |-> TRUE, at |-> t]
NoServed == [at |-> 0, requests |-> 0]

\* a plausible slip: the component without the opt-out, a static section
\* like the others
DynamicTimeStatic(t) == [noStore |-> FALSE, currentTime |-> t]

\* unstable_noStore(); const currentTime = new Date()
DynamicTime(t) == [noStore |-> TRUE, currentTime |-> t]

\* a section of the page: the output of a component that opted out is
\* computed for the request and never kept; any other output is kept with the
\* prerendered page and served from there
Section(rendered, stored) ==
    IF rendered.noStore
    THEN [value |-> rendered.currentTime, from |-> "request", keep |-> stored]
    ELSE IF stored.has
    THEN [value |-> stored.at, from |-> "cache", keep |-> stored]
    ELSE [value |-> rendered.currentTime, from |-> "request",
          keep |-> StoredAt(rendered.currentTime)]

\* getProduct's fetch with next: { revalidate: 3600 }: a cached response is
\* served, and refetched behind the response once stale; without one the
\* request waits for the origin
ProductData(data, t) ==
    IF ~data.has
    THEN {[fetchedAt |-> t, from |-> "origin", keep |-> StoredAt(t)]}
    ELSE { [fetchedAt |-> data.at, from |-> "cache",
            keep |-> IF o.refetch THEN StoredAt(t) ELSE data] :
             o \in DataCache(t - data.at, AppRevalidate) }

PprInit ==
    /\ ppr \in { [clock |-> 0, steps |-> 0, data |-> d, time |-> NoStored,
                   served |-> NoServed] :
                    d \in {NoStored, StoredAt(0)} }
    /\ PricesIdle
    /\ ErrorsIdle
    /\ StreamIdle
    /\ TimelineIdle
    /\ IsrIdle
    /\ ButtonIdle
    /\ PagesIdle
    /\ CacheIdle
    /\ life = ProductListLife
    /\ LifeIdle

\* time passes between two requests: a second, or the revalidation period
PprTick ==
    /\ ppr.steps < MaxPprSteps
    /\ \E d \in {1, AppRevalidate - 1, AppRevalidate} :
          ppr' = [ppr EXCEPT !.clock = @ + d, !.steps = @ + 1]
    /\ UNCHANGED <<priceVars, errVars, streamVars, timelineVars, isrVars,
                   buttonVars>>
    /\ UNCHANGED <<age, life, status>>
    /\ UNCHANGED pageVars
    /\ UNCHANGED cacheVars

\* GET /products/[id]: ProductDetailPage awaits getProduct, and the Suspense
\* boundary renders DynamicTime
RequestDetailPage ==
    /\ ppr.served.at < ppr.clock \/ ppr.served.requests = 0
    /\ \E product \in ProductData(ppr.data, ppr.clock) :
          LET section == Section(DynamicTime(ppr.clock), ppr.time) IN
          ppr' = [ppr EXCEPT
                    !.data = product.keep,
                    !.time = section.keep,
                    !.served = [at |-> ppr.clock,
                                requests |-> ppr.served.requests + 1,
                                time |-> section.value,
                                timeFrom |-> section.from,
                                dataAt |-> product.fetchedAt,
                                dataFrom |-> product.from]]
    /\ UNCHANGED <<priceVars, errVars, streamVars, timelineVars, isrVars,
                   buttonVars>>
    /\ UNCHANGED <<age, life, status>>
    /\ UNCHANGED pageVars
    /\ UNCHANGED cacheVars

PprNext == PprTick \/ RequestDetailPage

SpecPpr == PprInit /\ [][PprNext]_vars

PageServed == ppr.served.requests > 0

\* C21: every response of the detail page carries a DynamicTime computed for
\* that request, the time of the request itself, and no output of DynamicTime
\* is ever kept, also when the product data of the response came from the
\* cache.
C21_DynamicTimeEveryRequest ==
    PageServed =>
        /\ ppr.served.timeFrom = "request"
        /\ ppr.served.time = ppr.served.at
        /\ ~ppr.time.has

\* C21 witness: a second request whose product data came from the cache,
\* fetched before the request, with the timestamp of the request.
C21_Witness ==
    /\ ppr.served.requests >= 2
    /\ ppr.served.dataFrom = "cache"
    /\ ppr.served.dataAt < ppr.served.at
    /\ ppr.served.time = ppr.served.at

-----------------------------------------------------------------------------
(* SpecButton: one RevalidateButton, its click handler and the invalidation
   call it awaits.  The variants: "cache-components" awaits the server action
   revalidateBargains(expire), "refresh" awaits revalidateBargains() and
   calls router.refresh(), "no-cache" posts to /api/revalidate and reloads
   the page. *)

MaxClicks == 3

Variants == {"cache-components", "refresh", "no-cache"}

NoMessage == [kind |-> "none", text |-> ""]
Success(text) == [kind |-> "success", text |-> text]

\* what an awaited call rejects with: an Error with its message, or a value
\* that is no Error
Thrown == {[isError |-> TRUE, text |-> "boom"], [isError |-> FALSE, text |-> ""]}
NothingThrown == [isError |-> FALSE, text |-> "none"]

\* `Failed: ${error instanceof Error ? error.message : 'Unknown error'}`
FailedWith(thrown) ==
    [kind |-> "Failed",
     text |-> IF thrown.isError THEN thrown.text ELSE "Unknown error"]

\* the outcomes of the awaited server action
ActionOutcomes ==
    {[rejects |-> FALSE, thrown |-> NothingThrown]}
    \cup { [rejects |-> TRUE, thrown |-> t] : t \in Thrown }

\* what handleRevalidate does once its call has settled: the message it sets,
\* whether it schedules a reload, whether it refreshes the router
Done(message, reload, refresh) ==
    [message |-> message, reload |-> reload, refresh |-> refresh]

\* a plausible slip: the success text set whatever the outcome
handleRevalidateOptimistic(expire, outcome) ==
    IF expire
    THEN Done(Success("Cache expired! Refreshing..."), FALSE, FALSE)
    ELSE Done(Success("Cache marked for update on next visit!"), FALSE, FALSE)

\* cache-components: try { await revalidateBargains(expire); ... } catch
handleRevalidateCacheComponents(expire, outcome) ==
    IF outcome.rejects THEN Done(FailedWith(outcome.thrown), FALSE, FALSE)
    ELSE IF expire
    THEN Done(Success("Cache expired! Refreshing..."), FALSE, FALSE)
    ELSE Done(Success("Cache marked for update on next visit!"), FALSE, FALSE)

\* refresh: try { await revalidateBargains(); router.refresh() } catch
handleRevalidateRefresh(outcome) ==
    IF outcome.rejects THEN Done(FailedWith(outcome.thrown), FALSE, FALSE)
    ELSE Done(Success("Prices updated!"), FALSE, TRUE)

\* the request of the no-cache button: { path: '/bargains' }
ButtonBody(fault) ==
    [json |-> "object", path |-> Str(EntryPath), type |-> "string",
     fault |-> fault]

\* what the client gets for its fetch: a rejection, or the answer of the
\* route handler, whose body arrives intact or not as JSON
Answers ==
    {[net |-> "reject", status |-> 0, parse |-> "none", message |-> "none"]}
    \cup { [net |-> "ok", status |-> POST(CacheState, ButtonBody(f)).status,
            parse |-> w,
            message |-> POST(CacheState, ButtonBody(f)).message] :
             f \in BOOLEAN, w \in {"ok", "throws"} }

\* a plausible slip: the reload scheduled after the try, whatever happened
handleRevalidateReloadsAlways(answer) ==
    IF answer.net = "reject"
    THEN Done(FailedWith([isError |-> TRUE, text |-> "Failed to fetch"]),
              TRUE, FALSE)
    ELSE IF answer.parse = "throws"
    THEN Done(FailedWith([isError |-> TRUE, text |-> "Unexpected token"]),
              TRUE, FALSE)
    ELSE IF Ok(answer) THEN Done(Success("Prices updated!"), TRUE, FALSE)
    ELSE Done([kind |-> "Error", text |-> answer.message], TRUE, FALSE)

\* no-cache: fetch rejects with a TypeError, response.json() with a
\* SyntaxError; then if (response.ok) { setMessage; setTimeout(reload, 800) }
handleRevalidateNoCache(answer) ==
    IF answer.net = "reject"
    THEN Done(FailedWith([isError |-> TRUE, text |-> "Failed to fetch"]),
              FALSE, FALSE)
    ELSE IF answer.parse = "throws"
    THEN Done(FailedWith([isError |-> TRUE, text |-> "Unexpected token"]),
              FALSE, FALSE)
    ELSE IF Ok(answer) THEN Done(Success("Prices updated!"), TRUE, FALSE)
    ELSE Done([kind |-> "Error", text |-> answer.message], FALSE, FALSE)

\* a plausible slip: the button left enabled while the call is awaited
DisabledNever(b) == FALSE

\* disabled={isRevalidating}
Disabled(b) == b.isRevalidating

\* {isRevalidating ? 'Updating...' : 'Update Prices'}
Label(b) == IF b.isRevalidating THEN "Updating..." ELSE "Update Prices"

NoLast == [kind |-> "none"]

\* useState(false), useState('')
Mounted(variant, expire) ==
    [variant |-> variant, expire |-> expire, isRevalidating |-> FALSE,
     message |-> NoMessage, inflight |-> 0, messagesSet |-> 0,
     clicks |-> 0, timers |-> 0, reloads |-> 0, refreshes |-> 0,
     scheduled |-> 0, okAnswers |-> 0, last |-> NoLast]

ButtonInit ==
    /\ button \in { Mounted(v, e) : v \in Variants, e \in BOOLEAN }
    /\ button.variant # "cache-components" => ~button.expire
    /\ PricesIdle
    /\ ErrorsIdle
    /\ StreamIdle
    /\ TimelineIdle
    /\ IsrIdle
    /\ PprIdle
    /\ PagesIdle
    /\ CacheIdle
    /\ life = ProductListLife
    /\ LifeIdle

ButtonFrame ==
    /\ UNCHANGED <<priceVars, errVars, streamVars, timelineVars, isrVars,
                   pprVars>>
    /\ UNCHANGED <<age, life, status>>
    /\ UNCHANGED pageVars
    /\ UNCHANGED cacheVars

\* onClick={handleRevalidate} up to its await: a disabled button takes no
\* click
Click ==
    /\ ~Disabled(button)
    /\ button.clicks < MaxClicks
    /\ button' = [button EXCEPT !.isRevalidating = TRUE,
                                !.message = NoMessage,
                                !.messagesSet = 0,
                                !.inflight = @ + 1,
                                !.clicks = @ + 1,
                                !.last = NoLast]
    /\ ButtonFrame

\* the settled call was a fetch that the endpoint answered with an OK status
AnsweredOk(last) ==
    last.kind = "fetch" /\ last.answer.net = "ok" /\ Ok(last.answer)

\* the rest of handleRevalidate, from the settled call to the end of finally
Finish(done, last) ==
    button' = [button EXCEPT !.isRevalidating = FALSE,
                             !.message = done.message,
                             !.messagesSet = @ + 1,
                             !.inflight = @ - 1,
                             !.timers = @ + (IF done.reload THEN 1 ELSE 0),
                             !.scheduled = @ + (IF done.reload THEN 1 ELSE 0),
                             !.okAnswers = @ + (IF AnsweredOk(last) THEN 1
                                                ELSE 0),
                             !.refreshes = @ + (IF done.refresh THEN 1 ELSE 0),
                             !.last = last]

\* the server action settles
SettleAction ==
    /\ button.variant \in {"cache-components", "refresh"}
    /\ button.inflight > 0
    /\ \E outcome \in ActionOutcomes :
          LET done == IF button.variant = "refresh"
                      THEN handleRevalidateRefresh(outcome)
                      ELSE handleRevalidateCacheComponents(button.expire,
                                                           outcome)
          IN  Finish(done, [kind |-> "action", rejects |-> outcome.rejects,
                            thrown |-> outcome.thrown,
                            reload |-> done.reload])
    /\ ButtonFrame

\* the fetch and the reading of its body settle
SettleFetch ==
    /\ button.variant = "no-cache"
    /\ button.inflight > 0
    /\ \E answer \in Answers :
          LET done == handleRevalidateNoCache(answer) IN
          Finish(done, [kind |-> "fetch", answer |-> answer,
                        reload |-> done.reload])
    /\ ButtonFrame

\* the 800 ms timer fires: window.location.reload() mounts the page anew and
\* drops whatever the old page was waiting for
ReloadFires ==
    /\ button.timers > 0
    /\ button' = [Mounted(button.variant, button.expire) EXCEPT
                     !.clicks = button.clicks,
                     !.scheduled = button.scheduled,
                     !.okAnswers = button.okAnswers,
                     !.reloads = button.reloads + 1,
                     !.last = [kind |-> "reload"]]
    /\ ButtonFrame

ButtonNext == Click \/ SettleAction \/ SettleFetch \/ ReloadFires

SpecButton == ButtonInit /\ [][ButtonNext]_vars

Handled == button.last.kind \in {"action", "fetch"}

\* C24: in every variant isRevalidating is true exactly while a call of the
\* button is in flight (set at the start of handleRevalidate, reset when the
\* call has settled, on success and on failure alike); the button is disabled
\* and reads "Updating..." exactly then; so no button has two calls in flight.
C24_OneCallAtATime ==
    button.variant # "none" =>
        /\ button.isRevalidating <=> button.inflight > 0
        /\ Disabled(button) <=> button.isRevalidating
        /\ Label(button) = "Updating..." <=> button.inflight > 0
        /\ button.inflight <= 1
        /\ Handled => ~button.isRevalidating

\* C24 witness: a second click taken after a rejected call had settled.
C24_Witness ==
    /\ button.clicks = 2
    /\ button.isRevalidating
    /\ button.inflight = 1
    /\ button.reloads = 0

\* C24 witness: the button enabled again after a rejected call.
C24_WitnessAfterFailure ==
    /\ Handled
    /\ button.message.kind = "Failed"
    /\ ~Disabled(button)
    /\ Label(button) = "Update Prices"

\* C25: in the cache-components button no message is shown while the call is
\* in flight, and once it has settled exactly one message was set: the "Cache
\* expired" text after a success with expire true, the "marked for update on
\* next visit" text after a success with expire false, the "Failed" text with
\* the error's message after a rejection, and never a success text then.
C25_MessageMatchesOutcome ==
    button.variant = "cache-components" =>
        /\ button.inflight > 0 =>
              button.message = NoMessage /\ button.messagesSet = 0
        /\ Handled =>
              /\ button.messagesSet = 1
              /\ (~button.last.rejects /\ button.expire) =>
                    button.message = Success("Cache expired! Refreshing...")
              /\ (~button.last.rejects /\ ~button.expire) =>
                    button.message =
                        Success("Cache marked for update on next visit!")
              /\ button.last.rejects =>
                    /\ button.message.kind = "Failed"
                    /\ button.last.thrown.isError =>
                          button.message.text = button.last.thrown.text

\* C25 witness: expire true and the action rejected with an Error.
C25_Witness ==
    /\ button.variant = "cache-components"
    /\ button.expire
    /\ Handled
    /\ button.last.rejects
    /\ button.message = [kind |-> "Failed", text |-> "boom"]

\* C25 witness: the message of an earlier call cleared by the next click.
C25_WitnessCleared ==
    /\ button.variant = "cache-components"
    /\ button.clicks = 2
    /\ button.inflight = 1
    /\ button.message = NoMessage

\* C26: the no-cache button schedules a reload only when the endpoint
\* answered with an OK status; after a non-OK answer, a rejected request or a
\* body that is not JSON it shows an error message and schedules nothing,
\* so no more reloads are ever scheduled, pending or done than OK answers were
\* received. Only this variant ever has a reload pending.
C26_ReloadOnlyAfterOk ==
    /\ button.variant \in Variants \ {"no-cache"} =>
          button.timers = 0 /\ button.reloads = 0
    /\ (button.variant = "no-cache" /\ Handled) =>
          LET answer == button.last.answer IN
          /\ button.last.reload => answer.net = "ok" /\ Ok(answer)
          /\ (answer.net = "reject" \/ ~Ok(answer) \/ answer.parse = "throws")
                => /\ ~button.last.reload
                   /\ button.message.kind \in {"Error", "Failed"}
          /\ button.last.reload => button.message.kind = "success"
    /\ button.variant # "none" =>
          /\ button.scheduled <= button.okAnswers
          /\ button.timers + button.reloads <= button.scheduled

\* C26 witness: the handler answered 500 "Error revalidating": the error is
\* shown and nothing is scheduled.
C26_Witness ==
    /\ button.variant = "no-cache"
    /\ Handled
    /\ button.last.answer.status = 500
    /\ button.last.answer.parse = "ok"
    /\ button.message = [kind |-> "Error", text |-> "Error revalidating"]
    /\ button.timers = 0

\* C26 witness: an OK answer, the reload scheduled and then fired.
C26_WitnessReloaded ==
    /\ button.variant = "no-cache"
    /\ button.reloads = 1
    /\ button.last.kind = "reload"

\* C26 witness: an OK status with a body that is not JSON.
C26_WitnessUnparsable ==
    /\ button.variant = "no-cache"
    /\ Handled
    /\ Ok(button.last.answer)
    /\ button.last.answer.parse = "throws"
    /\ button.message.kind = "Failed"
    /\ button.timers = 0

====
